---- MODULE Spec2Model ----
(***************************************************************************)
(* Decision core of the A/B-testing client: ProjectConfig (the             *)
(* configuration index) and DecisionService (forced variation, stored      *)
(* decision, audience gate, bucketing, persistence of the new decision).   *)
(***************************************************************************)
EXTENDS Integers, Sequences, FiniteSets, TLC

VARIABLES
  config,                \* DecisionService.config: the ProjectConfig instance
  user_profile_service,  \* DecisionService.user_profile_service: TRUE when one is configured
  store,                 \* backend of the user profile service: user id -> stored value
  pc,                    \* per caller: position inside get_variation
  frame,                 \* per caller: arguments, locals, return value and call trace
  assigned               \* history: the decisions that were bucketed and saved, while
                         \* the store has not failed and the experiment still allows them

vars == <<config, user_profile_service, store, pc, frame, assigned>>

-----------------------------------------------------------------------------
(* Python values *)

\* Python's None, for values that are otherwise records
None == [type |-> "NoneType"]

\* Python's None, for values that are otherwise strings
NoneStr == "None"

PyStr(s) == [type |-> "str", value |-> s]

PyDict(d) == [type |-> "dict", value |-> d]

Range(f) == {f[x] : x \in DOMAIN f}

\* dict.get(k): the value under k, None when k is not a key
Get(m, k) == IF k \in DOMAIN m THEN m[k] ELSE None

\* dict.update({k: v})
Put(m, k, v) == [x \in DOMAIN m \cup {k} |-> IF x = k THEN v ELSE m[x]]

EmptyDict == [x \in {} |-> None]

\* enums.LogLevels
INFO == "INFO"
WARNING == "WARNING"
ERROR == "ERROR"
DEBUG == "DEBUG"

\* one entry of a call trace: a logger call, an error handler call, or a
\* call of a collaborator
Ev(op, level, msg) == [op |-> op, level |-> level, msg |-> msg]

Log(level, msg) == Ev("log", level, msg)

HandleError(exception) == Ev("handle_error", "", exception)

Called(op) == Ev(op, "", "")

-----------------------------------------------------------------------------
(* entities: the typed records ProjectConfig builds from the datafile's dicts *)

\* entities.Variation(id, key, variables=None)
Variation(obj) ==
  [id |-> obj.id, key |-> obj.key, variables |-> obj.variables]

\* entities.Experiment(..., groupId=None, groupPolicy=None)
Experiment(obj) ==
  [id |-> obj.id, key |-> obj.key, status |-> obj.status,
   audienceIds |-> obj.audienceIds, variations |-> obj.variations,
   forcedVariations |-> obj.forcedVariations,
   trafficAllocation |-> obj.trafficAllocation, layerId |-> obj.layerId,
   groupId |-> NoneStr, groupPolicy |-> NoneStr]

\* entities.Group(id, policy, experiments, trafficAllocation)
Group(obj) ==
  [id |-> obj.id, policy |-> obj.policy, experiments |-> obj.experiments,
   trafficAllocation |-> obj.trafficAllocation]

\* entities.Layer(id, policy, experiments)
Layer(obj) == [id |-> obj.id, experiments |-> obj.experiments]

\* entities.Audience(id, name, conditions)
Audience(obj) == [id |-> obj.id, conditions |-> obj.conditions]

\* entities.Event(id, key, experimentIds)
Event(obj) == [id |-> obj.id, key |-> obj.key]

\* entities.Attribute(id, key)
Attribute(obj) == [id |-> obj.id, key |-> obj.key]

\* entities.Variable(id, key, type, defaultValue)
Variable(obj) ==
  [id |-> obj.id, key |-> obj.key, type |-> obj.type,
   defaultValue |-> obj.defaultValue]

\* entities.Variation.VariableUsage(id, value)
VariableUsage(obj) == [id |-> obj.id, value |-> obj.value]

\* entities.Feature(id, key, experimentIds, layerId, variables, groupId=None)
Feature(obj) ==
  [id |-> obj.id, key |-> obj.key, experimentIds |-> obj.experimentIds,
   layerId |-> obj.layerId, variables |-> obj.variables, groupId |-> NoneStr]

-----------------------------------------------------------------------------
(* ProjectConfig *)

V1_CONFIG_VERSION == "1"
V2_CONFIG_VERSION == "2"
SUPPORTED_VERSIONS == {V2_CONFIG_VERSION}
UNSUPPORTED_VERSIONS == {V1_CONFIG_VERSION}

\* entity_class(**obj): the entity a class builds from a dict
New(entity_class, obj) ==
  CASE entity_class = "Variation" -> Variation(obj)
    [] entity_class = "Experiment" -> Experiment(obj)
    [] entity_class = "Group" -> Group(obj)
    [] entity_class = "Layer" -> Layer(obj)
    [] entity_class = "Audience" -> Audience(obj)
    [] entity_class = "Event" -> Event(obj)
    [] entity_class = "Attribute" -> Attribute(obj)
    [] entity_class = "Variable" -> Variable(obj)
    [] entity_class = "VariableUsage" -> VariableUsage(obj)
    [] entity_class = "Feature" -> Feature(obj)

\* the index of the last dict of list whose field key is k
LastIndex(list, key, k) ==
  CHOOSE i \in DOMAIN list :
    /\ list[i][key] = k
    /\ \A j \in DOMAIN list : list[j][key] = k => j <= i

\* ProjectConfig._generate_key_map: a later dict replaces an earlier one
\* that has the same key
generate_key_map(list, key, entity_class) ==
  [k \in {list[i][key] : i \in DOMAIN list} |->
     New(entity_class, list[LastIndex(list, key, k)])]

\* dict.update(other)
Update(m, other) ==
  [k \in DOMAIN m \cup DOMAIN other |->
     IF k \in DOMAIN other THEN other[k] ELSE m[k]]

\* the dicts of list that generate_key_map keeps, in list order: what
\* iterating over the map's values() visits
KeptDicts(list, key) ==
  SelectSeq([i \in DOMAIN list |-> [at |-> i, obj |-> list[i]]],
            LAMBDA e : e.at = LastIndex(list, key, e.obj[key]))

\* lines 66-68: every experiment nested in a layer is registered in the
\* experiment key map
RECURSIVE add_layer_experiments(_, _, _)
add_layer_experiments(experiment_key_map, layers, i) ==
  IF i > Len(layers) THEN experiment_key_map
  ELSE add_layer_experiments(
         Update(experiment_key_map,
                generate_key_map(layers[i].obj.experiments, "key", "Experiment")),
         layers, i + 1)

\* the experiments of a group annotated with the group's id only
experiments_in_group_key_map_without_policy(group) ==
  LET m == generate_key_map(group.experiments, "key", "Experiment")
  IN  [k \in DOMAIN m |-> [m[k] EXCEPT !.groupId = group.id]]

\* the experiments of a group as the datafile has them
experiments_in_group_key_map_unannotated(group) ==
  generate_key_map(group.experiments, "key", "Experiment")

\* lines 72-77: the experiments of a group, annotated with the group's id
\* and policy
experiments_in_group_key_map(group) ==
  LET m == generate_key_map(group.experiments, "key", "Experiment")
  IN  [k \in DOMAIN m |->
         [m[k] EXCEPT !.groupId = group.id, !.groupPolicy = group.policy]]

\* lines 71-78
RECURSIVE add_group_experiments(_, _, _)
add_group_experiments(experiment_key_map, groups, i) ==
  IF i > Len(groups) THEN experiment_key_map
  ELSE add_group_experiments(
         Update(experiment_key_map,
                experiments_in_group_key_map(Group(groups[i].obj))),
         groups, i + 1)

\* the group id of the feature's first experiment, in a group or not
feature_group_id_of_first(experiment_id_map, experimentIds, i) ==
  IF Len(experimentIds) = 0 THEN NoneStr
  ELSE experiment_id_map[experimentIds[1]].groupId

\* lines 102-107: the group id of the first of the feature's experiments
\* that is in a group
RECURSIVE feature_group_id(_, _, _)
feature_group_id(experiment_id_map, experimentIds, i) ==
  IF i > Len(experimentIds) THEN NoneStr
  ELSE IF experiment_id_map[experimentIds[i]].groupId # NoneStr
       THEN experiment_id_map[experimentIds[i]].groupId
       ELSE feature_group_id(experiment_id_map, experimentIds, i + 1)

\* line 103 raises KeyError when a feature names an experiment id that is
\* in no map
FeaturesResolve(features, experiment_id_map) ==
  \A i \in DOMAIN features :
    \A j \in DOMAIN features[i].experimentIds :
      features[i].experimentIds[j] \in DOMAIN experiment_id_map

\* every version but the supported ones taken as unsupported
version_not_supported(version) == version \notin SUPPORTED_VERSIONS

\* line 46: the version is one of those known to be unsupported
version_unsupported(version) == version \in UNSUPPORTED_VERSIONS

\* ProjectConfig.__init__
ProjectConfig(datafile) ==
  IF version_unsupported(datafile.version)
  THEN [parsing_succeeded |-> FALSE, version |-> datafile.version]
  ELSE
  LET group_id_map == generate_key_map(datafile.groups, "id", "Group")
      layer_id_map == generate_key_map(datafile.layers, "id", "Layer")
      experiment_key_map ==
        add_group_experiments(
          add_layer_experiments(
            generate_key_map(datafile.experiments, "key", "Experiment"),
            KeptDicts(datafile.layers, "id"), 1),
          KeptDicts(datafile.groups, "id"), 1)
      experiment_id_map ==
        [id \in {experiment_key_map[k].id : k \in DOMAIN experiment_key_map} |->
           experiment_key_map[
             CHOOSE k \in DOMAIN experiment_key_map : experiment_key_map[k].id = id]]
      variation_key_map ==
        [k \in DOMAIN experiment_key_map |->
           generate_key_map(experiment_key_map[k].variations, "key", "Variation")]
      variation_id_map ==
        [k \in DOMAIN experiment_key_map |->
           [id \in {variation_key_map[k][vk].id : vk \in DOMAIN variation_key_map[k]} |->
              variation_key_map[k][
                CHOOSE vk \in DOMAIN variation_key_map[k] :
                  variation_key_map[k][vk].id = id]]]
      all_variations ==
        UNION {Range(variation_key_map[k]) : k \in DOMAIN variation_key_map}
      variation_variable_usage_map ==
        [id \in {v.id : v \in {w \in all_variations : Len(w.variables) > 0}} |->
           generate_key_map(
             (CHOOSE v \in all_variations : v.id = id /\ Len(v.variables) > 0).variables,
             "id", "VariableUsage")]
      features == generate_key_map(datafile.features, "key", "Feature")
      feature_key_map ==
        [k \in DOMAIN features |->
           [features[k] EXCEPT
              !.variables = generate_key_map(features[k].variables, "key", "Variable"),
              !.groupId = feature_group_id(experiment_id_map, features[k].experimentIds, 1)]]
  IN  [parsing_succeeded |-> TRUE,
       version |-> datafile.version,
       group_id_map |-> group_id_map,
       experiment_key_map |-> experiment_key_map,
       event_key_map |-> generate_key_map(datafile.events, "key", "Event"),
       attribute_key_map |-> generate_key_map(datafile.attributes, "key", "Attribute"),
       audience_id_map |-> generate_key_map(datafile.audiences, "id", "Audience"),
       layer_id_map |-> layer_id_map,
       experiment_id_map |-> experiment_id_map,
       variation_key_map |-> variation_key_map,
       variation_id_map |-> variation_id_map,
       variation_variable_usage_map |-> variation_variable_usage_map,
       feature_key_map |-> feature_key_map]

\* a getter's outcome: the value it returns and the logger and error handler
\* calls it makes
Ret(value, trace) == [ret |-> value, trace |-> trace]

\* ProjectConfig.get_experiment_from_key
get_experiment_from_key(c, experiment_key) ==
  LET experiment == Get(c.experiment_key_map, experiment_key)
  IN  IF experiment # None THEN Ret(experiment, <<>>)
      ELSE Ret(None, <<Log(ERROR, "Experiment key is not in datafile."),
                       HandleError("InvalidExperimentException")>>)

\* ProjectConfig.get_experiment_from_id
get_experiment_from_id(c, experiment_id) ==
  LET experiment == Get(c.experiment_id_map, experiment_id)
  IN  IF experiment # None THEN Ret(experiment, <<>>)
      ELSE Ret(None, <<Log(ERROR, "Experiment ID is not in datafile."),
                       HandleError("InvalidExperimentException")>>)

\* ProjectConfig.get_group
get_group(c, group_id) ==
  LET group == Get(c.group_id_map, group_id)
  IN  IF group # None THEN Ret(group, <<>>)
      ELSE Ret(None, <<Log(ERROR, "Group ID is not in datafile."),
                       HandleError("InvalidGroupException")>>)

\* ProjectConfig.get_audience
get_audience(c, audience_id) ==
  LET audience == Get(c.audience_id_map, audience_id)
  IN  IF audience # None THEN Ret(audience, <<>>)
      ELSE Ret(None, <<Log(ERROR, "Audience ID is not in datafile."),
                       HandleError("InvalidAudienceException")>>)

\* ProjectConfig.get_variation_from_key: an empty variation map is falsy,
\* like a missing one
get_variation_from_key(c, experiment_key, variation_key) ==
  LET variation_map == Get(c.variation_key_map, experiment_key)
  IN  IF variation_map # None /\ DOMAIN variation_map # {}
      THEN LET variation == Get(variation_map, variation_key)
           IN  IF variation # None THEN Ret(variation, <<>>)
               ELSE Ret(None, <<Log(ERROR, "Variation key is not in datafile."),
                                HandleError("InvalidVariationException")>>)
      ELSE Ret(None, <<Log(ERROR, "Experiment key is not in datafile."),
                       HandleError("InvalidExperimentException")>>)

\* the variation id looked up in the experiment's map by key
get_variation_from_id_by_key(c, experiment_key, variation_id) ==
  LET variation_map == Get(c.variation_key_map, experiment_key)
  IN  IF variation_map # None /\ DOMAIN variation_map # {}
      THEN LET variation == Get(variation_map, variation_id)
           IN  IF variation # None THEN Ret(variation, <<>>)
               ELSE Ret(None, <<Log(ERROR, "Variation ID is not in datafile."),
                                HandleError("InvalidVariationException")>>)
      ELSE Ret(None, <<Log(ERROR, "Experiment key is not in datafile."),
                       HandleError("InvalidExperimentException")>>)

\* ProjectConfig.get_variation_from_id
get_variation_from_id(c, experiment_key, variation_id) ==
  LET variation_map == Get(c.variation_id_map, experiment_key)
  IN  IF variation_map # None /\ DOMAIN variation_map # {}
      THEN LET variation == Get(variation_map, variation_id)
           IN  IF variation # None THEN Ret(variation, <<>>)
               ELSE Ret(None, <<Log(ERROR, "Variation ID is not in datafile."),
                                HandleError("InvalidVariationException")>>)
      ELSE Ret(None, <<Log(ERROR, "Experiment key is not in datafile."),
                       HandleError("InvalidExperimentException")>>)

\* ProjectConfig.get_layer_from_id
get_layer_from_id(c, layer_id) ==
  LET layer == Get(c.layer_id_map, layer_id)
  IN  IF layer # None THEN Ret(layer, <<>>)
      ELSE Ret(None, <<Log(ERROR, "Layer is not in datafile.")>>)

\* ProjectConfig.get_event
get_event(c, event_key) ==
  LET event == Get(c.event_key_map, event_key)
  IN  IF event # None THEN Ret(event, <<>>)
      ELSE Ret(None, <<Log(ERROR, "Event is not in datafile."),
                       HandleError("InvalidEventException")>>)

\* ProjectConfig.get_attribute
get_attribute(c, attribute_key) ==
  LET attribute == Get(c.attribute_key_map, attribute_key)
  IN  IF attribute # None THEN Ret(attribute, <<>>)
      ELSE Ret(None, <<Log(ERROR, "Attribute is not in datafile."),
                       HandleError("InvalidAttributeException")>>)

\* ProjectConfig.get_feature_from_key
get_feature_from_key(c, feature_key) ==
  LET feature == Get(c.feature_key_map, feature_key)
  IN  IF feature # None THEN Ret(feature, <<>>)
      ELSE Ret(None, <<Log(ERROR, "Feature is not in datafile.")>>)

\* ProjectConfig.get_variable_for_feature
get_variable_for_feature(c, feature_key, variable_key) ==
  LET feature == Get(c.feature_key_map, feature_key)
  IN  IF feature = None
      THEN Ret(None, <<Log(ERROR, "Feature with key not found in the datafile.")>>)
      ELSE IF variable_key \notin DOMAIN feature.variables
           THEN Ret(None, <<Log(ERROR, "Variable with key not found in the datafile.")>>)
           ELSE Ret(feature.variables[variable_key], <<>>)

\* a call's outcome: the value returned, the exception raised (NoneStr when
\* the call returns) and the logger and error handler calls made
Outcome(value, raised, trace) == [ret |-> value, raised |-> raised, trace |-> trace]

\* Python values of the types a variable's value is cast to
PyBool(b) == [type |-> "bool", value |-> b]
PyInt(i) == [type |-> "int", value |-> i]
PyFloat(numerator, denominator) ==
  [type |-> "float", value |-> <<numerator, denominator>>]

\* int(value): the integer a string denotes, ValueError for any other string
int(value) ==
  CASE value = "42" -> Outcome(PyInt(42), NoneStr, <<>>)
    [] value = "-7" -> Outcome(PyInt(-7), NoneStr, <<>>)
    [] value = "10" -> Outcome(PyInt(10), NoneStr, <<>>)
    [] OTHER -> Outcome(None, "ValueError", <<>>)

\* float(value): the number a string denotes, as a fraction
float(value) ==
  CASE value = "42" -> Outcome(PyFloat(42, 1), NoneStr, <<>>)
    [] value = "-7" -> Outcome(PyFloat(-7, 1), NoneStr, <<>>)
    [] value = "10" -> Outcome(PyFloat(10, 1), NoneStr, <<>>)
    [] value = "4.99" -> Outcome(PyFloat(499, 100), NoneStr, <<>>)
    [] OTHER -> Outcome(None, "ValueError", <<>>)

\* ProjectConfig._get_typecast_value
get_typecast_value(value, type) ==
  CASE type = "boolean" -> Outcome(PyBool(value = "true"), NoneStr, <<>>)
    [] type = "integer" -> int(value)
    [] type = "double" -> float(value)
    [] OTHER -> Outcome(PyStr(value), NoneStr, <<>>)

\* line 434: variable_usages[variable.id] raises KeyError for an id the
\* map lacks
variable_usage(variable_usages, variable) ==
  IF variable.id \in DOMAIN variable_usages
  THEN Outcome(variable_usages[variable.id], NoneStr, <<>>)
  ELSE Outcome(None, "KeyError", <<>>)

\* ProjectConfig.get_variable_value_for_variation
get_variable_value_for_variation(c, variable, variation) ==
  IF variable = None \/ variation = None THEN Outcome(None, NoneStr, <<>>)
  ELSE IF variation.id \notin DOMAIN c.variation_variable_usage_map
       THEN Outcome(None, NoneStr,
                    <<Log(ERROR, "Variation with ID is not in the datafile.")>>)
       ELSE LET usage == variable_usage(c.variation_variable_usage_map[variation.id],
                                        variable)
            IN  IF usage.raised # NoneStr \/ usage.ret = None THEN usage
                ELSE get_typecast_value(usage.ret.value, variable.type)

\* ProjectConfig.was_parsing_successful
was_parsing_successful(c) == c.parsing_succeeded

\* ProjectConfig.get_version
get_version(c) == c.version

\* the lookup maps __init__ builds
LookupMaps ==
  {"group_id_map", "experiment_key_map", "event_key_map", "attribute_key_map",
   "audience_id_map", "layer_id_map", "experiment_id_map", "variation_key_map",
   "variation_id_map", "variation_variable_usage_map", "feature_key_map"}

\* the accessors that take keys or ids
Getters ==
  {"get_experiment_from_key", "get_experiment_from_id", "get_group",
   "get_audience", "get_variation_from_key", "get_variation_from_id",
   "get_event", "get_attribute", "get_feature_from_key", "get_layer_from_id"}

\* the attribute of the index the accessor reads first
attribute_read(name) ==
  CASE name = "get_experiment_from_key" -> "experiment_key_map"
    [] name = "get_experiment_from_id" -> "experiment_id_map"
    [] name = "get_group" -> "group_id_map"
    [] name = "get_audience" -> "audience_id_map"
    [] name = "get_variation_from_key" -> "variation_key_map"
    [] name = "get_variation_from_id" -> "variation_id_map"
    [] name = "get_event" -> "event_key_map"
    [] name = "get_attribute" -> "attribute_key_map"
    [] name = "get_feature_from_key" -> "feature_key_map"
    [] name = "get_layer_from_id" -> "layer_id_map"

\* the getter called with its arguments (b is used by the variation getters)
getter_result(c, name, a, b) ==
  CASE name = "get_experiment_from_key" -> get_experiment_from_key(c, a)
    [] name = "get_experiment_from_id" -> get_experiment_from_id(c, a)
    [] name = "get_group" -> get_group(c, a)
    [] name = "get_audience" -> get_audience(c, a)
    [] name = "get_variation_from_key" -> get_variation_from_key(c, a, b)
    [] name = "get_variation_from_id" -> get_variation_from_id(c, a, b)
    [] name = "get_event" -> get_event(c, a)
    [] name = "get_attribute" -> get_attribute(c, a)
    [] name = "get_feature_from_key" -> get_feature_from_key(c, a)
    [] name = "get_layer_from_id" -> get_layer_from_id(c, a)

\* a getter called on the index: reading a map __init__ did not set (it
\* returns at line 47 before any map is built) raises AttributeError
getter(c, name, a, b) ==
  IF attribute_read(name) \notin DOMAIN c
  THEN Outcome(None, "AttributeError", <<>>)
  ELSE Outcome(getter_result(c, name, a, b).ret, NoneStr,
               getter_result(c, name, a, b).trace)

\* ProjectConfig(datafile, logger, error_handler): the index, or KeyError
\* when a feature names an experiment id that is in no map (line 103)
construct(datafile) ==
  IF version_unsupported(datafile.version)
  THEN Outcome(ProjectConfig(datafile), NoneStr, <<>>)
  ELSE IF FeaturesResolve(datafile.features,
                          ProjectConfig([datafile EXCEPT !.features = <<>>])
                            .experiment_id_map)
       THEN Outcome(ProjectConfig(datafile), NoneStr, <<>>)
       ELSE Outcome(None, "KeyError", <<>>)

-----------------------------------------------------------------------------
(* bucketer.Bucketer *)

HASH_SEED == 1
MAX_TRAFFIC_VALUE == 10000

\* the UTF-8 bytes of the strings that are hashed
Bytes(s) ==
  CASE
       s = "user_1" -> <<117, 115, 101, 114, 95, 49>>
    [] s = "user_2" -> <<117, 115, 101, 114, 95, 50>>
    [] s = "user_3" -> <<117, 115, 101, 114, 95, 51>>
    [] s = "test_user" -> <<116, 101, 115, 116, 95, 117, 115, 101, 114>>
    [] s = "111127" -> <<49, 49, 49, 49, 50, 55>>
    [] s = "222227" -> <<50, 50, 50, 50, 50, 55>>
    [] s = "19228" -> <<49, 57, 50, 50, 56>>
    [] s = "32222" -> <<51, 50, 50, 50, 50>>
    [] s = "32223" -> <<51, 50, 50, 50, 51>>
    [] s = "32224" -> <<51, 50, 50, 50, 52>>
    [] s = "19229" -> <<49, 57, 50, 50, 57>>
    [] s = "211127" -> <<50, 49, 49, 49, 50, 55>>
    [] s = "211137" -> <<50, 49, 49, 49, 51, 55>>
    [] s = "211147" -> <<50, 49, 49, 49, 52, 55>>
    [] s = "333337" -> <<51, 51, 51, 51, 51, 55>>
    [] s = "444447" -> <<52, 52, 52, 52, 52, 55>>

\* 32-bit words are pairs <<high half, low half>> of 16-bit numbers
Half == 0..65535
Words == Half \X Half

\* bit i of a 16-bit number
Bit(a, i) == (a \div (2 ^ i)) % 2

\* the bitwise exclusive or of two 16-bit numbers
Xor16(a, b) ==
  LET bit(i) == ((Bit(a, i) + Bit(b, i)) % 2) * (2 ^ i)
  IN  bit(0) + bit(1) + bit(2) + bit(3) + bit(4) + bit(5) + bit(6) + bit(7)
      + bit(8) + bit(9) + bit(10) + bit(11) + bit(12) + bit(13) + bit(14) + bit(15)

Xor32[a \in Words, b \in Words] == <<Xor16(a[1], b[1]), Xor16(a[2], b[2])>>

\* the product of two 16-bit numbers, as a 32-bit word
Mul16(x, y) ==
  LET t0 == (x % 256) * y
      t1 == (x \div 256) * y
      low == (t1 % 256) * 256 + t0
  IN  <<(t1 \div 256) + (low \div 65536), low % 65536>>

\* a * b mod 2^32
Mul32[a \in Words, b \in Words] ==
  LET p == Mul16(a[2], b[2])
  IN  <<(p[1] + Mul16(a[1], b[2])[2] + Mul16(a[2], b[1])[2]) % 65536, p[2]>>

\* a + b mod 2^32
Add32[a \in Words, b \in Words] ==
  <<(a[1] + b[1] + ((a[2] + b[2]) \div 65536)) % 65536, (a[2] + b[2]) % 65536>>

\* a rotated left by r bits, 0 < r < 16
Rotl32[a \in Words, r \in 1..15] ==
  <<((a[1] * (2 ^ r)) % 65536) + (a[2] \div (2 ^ (16 - r))),
    ((a[2] * (2 ^ r)) % 65536) + (a[1] \div (2 ^ (16 - r)))>>

\* a shifted right by r bits, 0 < r <= 16
Shr32[a \in Words, r \in 1..16] ==
  <<a[1] \div (2 ^ r),
    (a[2] \div (2 ^ r)) + (a[1] % (2 ^ r)) * (2 ^ (16 - r))>>

\* the constants of MurmurHash3: c1 = 0xcc9e2d51, c2 = 0x1b873593,
\* n = 0xe6546b64, and the two multipliers of the final mix
MurmurC1 == <<52382, 11601>>
MurmurC2 == <<7047, 13715>>
MurmurN == <<58964, 27492>>
MurmurF1 == <<34283, 51819>>
MurmurF2 == <<49842, 44597>>

\* the mixing of one 4-byte block (or of the tail) into k
MurmurK[k \in Words] == Mul32[Rotl32[Mul32[k, MurmurC1], 15], MurmurC2]

\* byte i of data, 0 beyond its end
ByteAt(data, i) == IF i <= Len(data) THEN data[i] ELSE 0

\* the 4-byte blocks of data from byte i on, mixed into h
RECURSIVE MurmurBody(_, _, _)
MurmurBody(h, data, i) ==
  IF i + 3 > Len(data) THEN h
  ELSE MurmurBody(
         Add32[Mul32[Rotl32[Xor32[h, MurmurK[<<data[i + 3] * 256 + data[i + 2],
                                                data[i + 1] * 256 + data[i]>>]],
                            13],
                     <<0, 5>>],
               MurmurN],
         data, i + 4)

\* the last 1 to 3 bytes of data, mixed into h
MurmurTail(h, data) ==
  LET n == Len(data)
      at == n - (n % 4) + 1
  IN  IF n % 4 = 0 THEN h
      ELSE Xor32[h, MurmurK[<<ByteAt(data, at + 2),
                              ByteAt(data, at + 1) * 256 + ByteAt(data, at)>>]]

\* h ^= h >> r
XorShift[h \in Words, r \in 1..16] == Xor32[h, Shr32[h, r]]

MurmurFmix[h \in Words] ==
  XorShift[Mul32[XorShift[Mul32[XorShift[h, 16], MurmurF1], 13], MurmurF2], 16]

\* MurmurHash3, 32 bits, of a byte sequence
MurmurHash3(data, seed) ==
  MurmurFmix[Xor32[MurmurTail(MurmurBody(<<0, seed>>, data, 1), data),
                   <<0, Len(data)>>]]

\* the hash's upper half, unscaled
generate_bucket_value_unscaled(bucketing_key) ==
  Shr32[MurmurHash3(bucketing_key, HASH_SEED), 16][2]

\* Bucketer._generate_bucket_value: the hash's upper half, scaled into
\* [0, MAX_TRAFFIC_VALUE)
generate_bucket_value(bucketing_key) ==
  Shr32[MurmurHash3(bucketing_key, HASH_SEED), 16][2] % MAX_TRAFFIC_VALUE

\* the bucket value of every (bucketing id, parent id) pair the model hashes
BucketValue(user_id, parent_id) ==
  generate_bucket_value(Bytes(user_id) \o Bytes(parent_id))

\* an entry taking the value its end of range equals
allocation_takes_up_to_end(bucket_value, traffic_allocation) ==
  bucket_value <= traffic_allocation.endOfRange

\* the entry's end of range exceeds the value
allocation_takes(bucket_value, traffic_allocation) ==
  bucket_value < traffic_allocation.endOfRange

\* the first entry, in table order, whose end of range exceeds the value
RECURSIVE first_allocation(_, _, _)
first_allocation(traffic_allocations, bucket_value, i) ==
  IF i > Len(traffic_allocations) THEN NoneStr
  ELSE IF allocation_takes(bucket_value, traffic_allocations[i])
       THEN traffic_allocations[i].entityId
       ELSE first_allocation(traffic_allocations, bucket_value, i + 1)

\* Bucketer.find_bucket
find_bucket(bucketing_id, parent_id, traffic_allocations) ==
  first_allocation(traffic_allocations, BucketValue(bucketing_id, parent_id), 1)

\* bucketing by the experiment's own traffic allocation alone
bucket_ignoring_group(c, experiment, user_id) ==
  LET variation_id ==
        find_bucket(user_id, experiment.id, experiment.trafficAllocation)
  IN  IF variation_id # NoneStr
      THEN get_variation_from_id(c, experiment.key, variation_id).ret
      ELSE None

\* Bucketer.bucket
bucket(c, experiment, user_id) ==
  IF experiment.groupPolicy = "random"
  THEN LET group == get_group(c, experiment.groupId).ret
           user_experiment_id ==
             find_bucket(user_id, experiment.groupId, group.trafficAllocation)
       IN  IF group = None THEN None
           ELSE IF user_experiment_id = NoneStr THEN None
           ELSE IF user_experiment_id # experiment.id THEN None
           ELSE LET variation_id ==
                      find_bucket(user_id, experiment.id, experiment.trafficAllocation)
                IN  IF variation_id # NoneStr
                    THEN get_variation_from_id(c, experiment.key, variation_id).ret
                    ELSE None
  ELSE LET variation_id ==
             find_bucket(user_id, experiment.id, experiment.trafficAllocation)
       IN  IF variation_id # NoneStr
           THEN get_variation_from_id(c, experiment.key, variation_id).ret
           ELSE None

-----------------------------------------------------------------------------
(* helpers: experiment status, validator, audience; user_profile.UserProfile *)

\* helpers.experiment.is_experiment_running
is_experiment_running(experiment) == experiment.status = "Running"

\* the condition evaluator: conditions are the attribute values they accept
matches(conditions, attributes) == attributes \in conditions

\* helpers.audience.is_user_in_experiment: an experiment without audiences
\* takes every user; otherwise one of its audiences has to match
is_user_in_experiment(c, experiment, attributes) ==
  \/ Len(experiment.audienceIds) = 0
  \/ \E i \in DOMAIN experiment.audienceIds :
       LET audience == get_audience(c, experiment.audienceIds[i]).ret
       IN  audience # None /\ matches(audience.conditions, attributes)

\* user_profile.UserProfile(user_id, experiment_bucket_map=None)
UserProfile(user_id, experiment_bucket_map) ==
  [user_id |-> user_id, experiment_bucket_map |-> experiment_bucket_map]

\* UserProfile.get_variation_for_experiment
get_variation_for_experiment(user_profile, experiment_id) ==
  IF experiment_id \in DOMAIN user_profile.experiment_bucket_map
  THEN user_profile.experiment_bucket_map[experiment_id].variation_id
  ELSE NoneStr

\* UserProfile.save_variation_for_experiment
save_variation_for_experiment(user_profile, experiment_id, variation_id) ==
  [user_profile EXCEPT
     !.experiment_bucket_map = Put(@, experiment_id, [variation_id |-> variation_id])]

\* helpers.validator.is_user_profile_valid: a dict that has a user id and
\* an experiment bucket map
is_user_profile_valid(user_profile) ==
  /\ user_profile.type = "dict"
  /\ "user_id" \in DOMAIN user_profile.value
  /\ "experiment_bucket_map" \in DOMAIN user_profile.value

-----------------------------------------------------------------------------
(* DecisionService *)

\* get_forced_variation resolving the forced variation as an id, not a key
get_forced_variation_by_id(c, experiment, user_id) ==
  LET forced_variations == experiment.forcedVariations
  IN  IF DOMAIN forced_variations # {} /\ user_id \in DOMAIN forced_variations
      THEN LET variation ==
                 get_variation_from_id(c, experiment.key, forced_variations[user_id])
           IN  Ret(variation.ret,
                   variation.trace \o
                   (IF variation.ret # None
                    THEN <<Log(INFO, "User is forced in variation.")>>
                    ELSE <<>>))
      ELSE Ret(None, <<>>)

\* DecisionService.get_forced_variation
get_forced_variation(c, experiment, user_id) ==
  LET forced_variations == experiment.forcedVariations
  IN  IF DOMAIN forced_variations # {} /\ user_id \in DOMAIN forced_variations
      THEN LET variation_key == forced_variations[user_id]
               variation == get_variation_from_key(c, experiment.key, variation_key)
           IN  Ret(variation.ret,
                   variation.trace \o
                   (IF variation.ret # None
                    THEN <<Log(INFO, "User is forced in variation.")>>
                    ELSE <<>>))
      ELSE Ret(None, <<>>)

\* get_stored_variation reading the profile under the experiment's key, not
\* its id
get_stored_variation_by_key(c, experiment, user_profile) ==
  LET variation_id == get_variation_for_experiment(user_profile, experiment.key)
  IN  IF variation_id \notin {NoneStr, ""}
      THEN LET variation == get_variation_from_id(c, experiment.key, variation_id)
           IN  Ret(variation.ret,
                   variation.trace \o
                   (IF variation.ret # None
                    THEN <<Log(INFO, "Found a stored decision.")>>
                    ELSE <<>>))
      ELSE Ret(None, <<>>)

\* get_stored_variation resolving the stored id as a variation key
get_stored_variation_resolving_by_key(c, experiment, user_profile) ==
  LET variation_id == get_variation_for_experiment(user_profile, experiment.id)
  IN  IF variation_id \notin {NoneStr, ""}
      THEN LET variation == get_variation_from_key(c, experiment.key, variation_id)
           IN  Ret(variation.ret,
                   variation.trace \o
                   (IF variation.ret # None
                    THEN <<Log(INFO, "Found a stored decision.")>>
                    ELSE <<>>))
      ELSE Ret(None, <<>>)

\* get_stored_variation resolving the stored id in whichever experiment has
\* a variation of that id
get_stored_variation_of_any_experiment(c, experiment, user_profile) ==
  LET variation_id == get_variation_for_experiment(user_profile, experiment.id)
      holders == {k \in DOMAIN c.variation_id_map :
                    variation_id \in DOMAIN c.variation_id_map[k]}
  IN  IF variation_id \notin {NoneStr, ""} /\ holders # {}
      THEN Ret(c.variation_id_map[CHOOSE k \in holders : TRUE][variation_id],
               <<Log(INFO, "Found a stored decision.")>>)
      ELSE Ret(None, <<>>)

\* DecisionService.get_stored_variation
get_stored_variation(c, experiment, user_profile) ==
  LET variation_id == get_variation_for_experiment(user_profile, experiment.id)
  IN  IF variation_id \notin {NoneStr, ""}
      THEN LET variation == get_variation_from_id(c, experiment.key, variation_id)
           IN  Ret(variation.ret,
                   variation.trace \o
                   (IF variation.ret # None
                    THEN <<Log(INFO, "Found a stored decision.")>>
                    ELSE <<>>))
      ELSE Ret(None, <<>>)

\* the status check letting paused experiments through
experiment_not_running_but_paused(experiment) ==
  experiment.status \notin {"Running", "Paused"}

\* get_variation, line 99: the experiment is not running
experiment_not_running(experiment) == ~is_experiment_running(experiment)

\* the lookup guard without the ignore_user_profile flag
lookup_enabled_by_service(ignore_user_profile, ups) == ups

\* get_variation, line 110: the stored decision is looked up
lookup_enabled(ignore_user_profile, ups) == ~ignore_user_profile /\ ups

\* get_variation, line 141: the new decision is saved
save_enabled(ignore_user_profile, ups) == ~ignore_user_profile /\ ups

\* the frame of a caller that is in no call
IdleFrame ==
  [experiment |-> None, user_id |-> NoneStr, attributes |-> NoneStr,
   ignore_user_profile |-> FALSE, user_profile |-> None,
   retrieved_profile |-> None, variation |-> None,
   ret |-> None, trace |-> <<>>, saved |-> <<>>]

\* return value v after the calls in trace
Return(f, v, trace) ==
  [pc |-> "done", frame |-> [f EXCEPT !.ret = v, !.trace = @ \o trace]]

\* continue at position at after the calls in trace
Continue(f, at, trace) ==
  [pc |-> at, frame |-> [f EXCEPT !.trace = @ \o trace]]

\* get_variation ending the call at a forced entry, resolved or not
get_variation_begin_stopping_at_forced_entry(c, ups, f) ==
  IF experiment_not_running(f.experiment)
  THEN Return(f, None, <<Log(INFO, "Experiment is not running.")>>)
  ELSE LET variation == get_forced_variation(c, f.experiment, f.user_id)
           trace == <<Called("get_forced_variation")>> \o variation.trace
       IN  IF variation.ret # None \/ f.user_id \in DOMAIN f.experiment.forcedVariations
           THEN Return(f, variation.ret, trace)
           ELSE Continue([f EXCEPT !.user_profile = UserProfile(f.user_id, EmptyDict)],
                         IF lookup_enabled(f.ignore_user_profile, ups)
                         THEN "lookup" ELSE "decide",
                         trace)

\* get_variation, lines 98-110: the status check, the forced variation and
\* the fresh user profile
get_variation_begin(c, ups, f) ==
  IF experiment_not_running(f.experiment)
  THEN Return(f, None, <<Log(INFO, "Experiment is not running.")>>)
  ELSE LET variation == get_forced_variation(c, f.experiment, f.user_id)
           trace == <<Called("get_forced_variation")>> \o variation.trace
       IN  IF variation.ret # None
           THEN Return(f, variation.ret, trace)
           ELSE Continue([f EXCEPT !.user_profile = UserProfile(f.user_id, EmptyDict)],
                         IF lookup_enabled(f.ignore_user_profile, ups)
                         THEN "lookup" ELSE "decide",
                         trace)

\* a lookup that is tried once more when it raises
lookup_result_retrying(raised, value) ==
  IF raised
  THEN Ret(value, <<Ev("lookup", "", "raised"),
                    Log(ERROR, "Unable to retrieve user profile."),
                    Ev("lookup", "", "returned")>>)
  ELSE Ret(value, <<Ev("lookup", "", "returned")>>)

\* get_variation, lines 111-119: the profile the lookup leaves in
\* retrieved_profile, and what is logged
lookup_result(raised, value) ==
  IF raised
  THEN Ret(None, <<Ev("lookup", "", "raised"),
                   Log(ERROR, "Unable to retrieve user profile.")>>)
  ELSE Ret(value, <<Ev("lookup", "", "returned")>>)

\* get_variation, line 122: UserProfile(**retrieved_profile)
profile_from_retrieved(retrieved_profile) ==
  UserProfile(retrieved_profile.user_id, retrieved_profile.experiment_bucket_map)

\* the stored decision honoured only while the audience accepts the user
use_profile_after_audience_gate(c, f, trace) ==
  LET user_profile == profile_from_retrieved(f.retrieved_profile.value)
      variation == get_stored_variation(c, f.experiment, user_profile)
      calls == trace \o <<Called("get_stored_variation")>> \o variation.trace
      g == [f EXCEPT !.user_profile = user_profile]
  IN  IF variation.ret # None /\ is_user_in_experiment(c, f.experiment, f.attributes)
      THEN Return(g, variation.ret, calls)
      ELSE Continue(g, "decide", calls)

\* get_variation, lines 122-125: the stored decision of a valid profile
use_profile(c, f, trace) ==
  LET user_profile == profile_from_retrieved(f.retrieved_profile.value)
      variation == get_stored_variation(c, f.experiment, user_profile)
      calls == trace \o <<Called("get_stored_variation")>> \o variation.trace
      g == [f EXCEPT !.user_profile = user_profile]
  IN  IF variation.ret # None
      THEN Return(g, variation.ret, calls)
      ELSE Continue(g, "decide", calls)

\* a profile of the wrong shape ending the call
reject_profile_as_fatal(f, trace) ==
  Return(f, None, trace \o <<Log(WARNING, "User profile has invalid format.")>>)

\* get_variation, lines 126-127: a profile of the wrong shape is logged and
\* left aside
reject_profile(f, trace) ==
  Continue(f, "decide", trace \o <<Log(WARNING, "User profile has invalid format.")>>)

\* get_variation, lines 121-127
validate_profile(c, f, trace) ==
  IF is_user_profile_valid(f.retrieved_profile)
  THEN use_profile(c, f, trace)
  ELSE reject_profile(f, trace)

\* a lookup that raises ending the call
get_variation_lookup_raising_is_fatal(c, f, raised, value) ==
  LET retrieved == lookup_result(raised, value)
  IN  IF raised
      THEN Return(f, None, retrieved.trace)
      ELSE validate_profile(c, [f EXCEPT !.retrieved_profile = retrieved.ret],
                            retrieved.trace)

\* get_variation, lines 111-127: the lookup, the validation of the profile
\* and the stored decision
get_variation_lookup(c, f, raised, value) ==
  LET retrieved == lookup_result(raised, value)
  IN  validate_profile(c, [f EXCEPT !.retrieved_profile = retrieved.ret],
                       retrieved.trace)

\* the audience gate applied only to calls that pass attributes
audience_rejects_given_attributes(c, experiment, attributes) ==
  attributes # NoneStr /\ ~is_user_in_experiment(c, experiment, attributes)

\* get_variation, line 130: the audience gate rejects the user
audience_rejects(c, experiment, attributes) ==
  ~is_user_in_experiment(c, experiment, attributes)

\* the decision recorded in a profile that holds nothing else
profile_to_save_afresh(user_profile, experiment, variation) ==
  save_variation_for_experiment(UserProfile(user_profile.user_id, EmptyDict),
                                experiment.id, variation.id)

\* the experiment's first variation recorded, whichever was bucketed
profile_to_save_first_variation(user_profile, experiment, variation) ==
  save_variation_for_experiment(user_profile, experiment.id,
                                experiment.variations[1].id)

\* the decision recorded under the variation's key, not its id
profile_to_save_by_key(user_profile, experiment, variation) ==
  save_variation_for_experiment(user_profile, experiment.id, variation.key)

\* get_variation, line 143: the profile that is handed to save
profile_to_save(user_profile, experiment, variation) ==
  save_variation_for_experiment(user_profile, experiment.id, variation.id)

\* get_variation, lines 129-143 and 149-151: the audience gate, the
\* bucketing and the update of the profile
get_variation_decide(c, ups, f) ==
  IF audience_rejects(c, f.experiment, f.attributes)
  THEN Return(f, None,
              <<Called("is_user_in_experiment"),
                Log(INFO, "User does not meet conditions.")>>)
  ELSE LET variation == bucket(c, f.experiment, f.user_id)
           trace == <<Called("is_user_in_experiment"), Called("bucket")>>
       IN  IF variation # None
           THEN IF save_enabled(f.ignore_user_profile, ups)
                THEN Continue(
                       [f EXCEPT !.variation = variation,
                                 !.user_profile =
                                   profile_to_save(f.user_profile, f.experiment, variation)],
                       "save", trace)
                ELSE Return(f, variation, trace)
           ELSE Return(f, None, trace)

\* get_variation, lines 144-148: the call of save, and what is logged
save_result(raised) ==
  IF raised
  THEN <<Ev("save", "", "raised"), Log(ERROR, "Unable to save user profile.")>>
  ELSE <<Ev("save", "", "returned")>>

\* a save whose exception reaches the caller
get_variation_save_propagating(f, raised) ==
  IF raised
  THEN [pc |-> "raised",
        frame |-> [f EXCEPT !.saved = @ \o <<f.user_profile>>,
                            !.trace = @ \o <<Ev("save", "", "raised")>>]]
  ELSE Return([f EXCEPT !.saved = @ \o <<f.user_profile>>], f.variation,
              save_result(raised))

\* a save that raises ending the call without a variation
get_variation_save_raising_is_fatal(f, raised) ==
  Return([f EXCEPT !.saved = @ \o <<f.user_profile>>],
         IF raised THEN None ELSE f.variation,
         save_result(raised))

\* get_variation, lines 144-149: the save and the return of the variation
get_variation_save(f, raised) ==
  Return([f EXCEPT !.saved = @ \o <<f.user_profile>>], f.variation,
         save_result(raised))

\* DecisionService.get_variation as one call: value is what lookup returns
\* when it does not raise
get_variation(c, ups, f, value, lookup_raises, save_raises) ==
  CHOOSE returned \in
    {IF decided.pc = "save"
     THEN get_variation_save(decided.frame, save_raises)
     ELSE decided :
       decided \in
         {IF looked_up.pc = "decide"
          THEN get_variation_decide(c, ups, looked_up.frame)
          ELSE looked_up :
            looked_up \in
              {IF begun.pc = "lookup"
               THEN get_variation_lookup(c, begun.frame, lookup_raises, value)
               ELSE begun :
                 begun \in {get_variation_begin(c, ups, f)}}}} :
    TRUE

\* the truth value of a string or None
Truthy(s) == s \notin {NoneStr, ""}

\* the frame of a call of get_variation with its arguments
Arguments(experiment, user_id, attributes, ignore_user_profile) ==
  [IdleFrame EXCEPT !.experiment = experiment,
                    !.user_id = user_id,
                    !.attributes = attributes,
                    !.ignore_user_profile = ignore_user_profile]

\* what the store holds after the call of get_variation that ended in frame f
store_after(st, f) ==
  IF \E i \in DOMAIN f.trace : f.trace[i] = Ev("save", "", "returned")
  THEN [st EXCEPT ![f.user_id] = PyDict(f.user_profile)]
  ELSE st

\* the outcome of a layer or feature call: its return value or the exception
\* it raises, its logger calls, the get_variation calls it made and the store
Out(ret, raised, trace, calls, st) ==
  [ret |-> ret, raised |-> raised, trace |-> trace, calls |-> calls, store |-> st]

\* a call of get_variation made for an experiment or for a rollout rule;
\* o tells whether lookup and save raise
call_get_variation(c, ups, st, via, experiment, user_id, attributes, ignore_user_profile, o) ==
  CHOOSE out \in
    {Out(f.ret, NoneStr,
         IF f.ret # None
         THEN <<Log(DEBUG, "User is in variation of experiment.")>>
         ELSE <<>>,
         <<[via |-> via, frame |-> f]>>,
         store_after(st, f)) :
       f \in {get_variation(c, ups,
                            Arguments(experiment, user_id, attributes,
                                      ignore_user_profile),
                            st[user_id], o.lookup_raises, o.save_raises).frame}} :
    TRUE

\* a loop that goes on although a variation was found
layer_stops_never(variation) == FALSE

\* get_variation_for_layer, line 173: the loop ends at a variation
layer_stops(variation) == variation # None

\* get_variation_for_layer, lines 171-172: the experiment of a layer entry
\* is resolved and decided; done is the outcome of the entries before it
layer_experiment(c, ups, done, experiment_dict, user_id, attributes, ignore_user_profile, o) ==
  LET experiment == get_experiment_from_key(c, experiment_dict.key)
  IN  IF experiment.ret = None
      THEN Out(None, "AttributeError", done.trace \o experiment.trace,
               done.calls, done.store)
      ELSE CHOOSE out \in
             {Out(call.ret, NoneStr, done.trace \o call.trace,
                  done.calls \o call.calls, call.store) :
                call \in {call_get_variation(c, ups, done.store, "layer",
                                             experiment.ret, user_id, attributes,
                                             ignore_user_profile, o)}} :
             TRUE

\* get_variation_for_layer, lines 170-178: the experiments from the i-th on
RECURSIVE layer_experiments(_, _, _, _, _, _, _, _, _)
layer_experiments(c, ups, done, experiments, i, user_id, attributes, ignore_user_profile, o) ==
  IF i > Len(experiments) \/ layer_stops(done.ret) \/ done.raised # NoneStr
  THEN done
  ELSE CHOOSE out \in
         {layer_experiments(c, ups, next, experiments, i + 1, user_id, attributes,
                            ignore_user_profile, o) :
            next \in {layer_experiment(c, ups, done, experiments[i], user_id,
                                       attributes, ignore_user_profile, o)}} :
         TRUE

\* DecisionService.get_variation_for_layer
get_variation_for_layer(c, ups, st, layer, user_id, attributes, ignore_user_profile, o) ==
  IF layer # None
  THEN layer_experiments(c, ups, Out(None, NoneStr, <<>>, <<>>, st),
                         layer.experiments, 1, user_id, attributes,
                         ignore_user_profile, o)
  ELSE Out(None, NoneStr, <<>>, <<>>, st)

\* get_experiment_in_group resolving the bucketed id as an experiment key
get_experiment_in_group_by_key(c, group, user_id) ==
  LET experiment_id == find_bucket(user_id, group.id, group.trafficAllocation)
      experiment == get_experiment_from_key(c, experiment_id)
      not_in_group == Log(INFO, "User is not in any experiments of group.")
  IN  IF Truthy(experiment_id)
      THEN IF experiment.ret # None
           THEN Ret(experiment.ret, <<Log(INFO, "User is in experiment of group.")>>)
           ELSE Ret(None, experiment.trace \o <<not_in_group>>)
      ELSE Ret(None, <<not_in_group>>)

\* DecisionService.get_experiment_in_group
get_experiment_in_group(c, group, user_id) ==
  LET experiment_id == find_bucket(user_id, group.id, group.trafficAllocation)
      experiment == get_experiment_from_id(c, experiment_id)
      not_in_group == Log(INFO, "User is not in any experiments of group.")
  IN  IF Truthy(experiment_id)
      THEN IF experiment.ret # None
           THEN Ret(experiment.ret, <<Log(INFO, "User is in experiment of group.")>>)
           ELSE Ret(None, experiment.trace \o <<not_in_group>>)
      ELSE Ret(None, <<not_in_group>>)

\* the group's experiment taken whether or not the feature lists it
experiment_in_feature_or_not(experiment, feature) == experiment # None

\* get_variation_for_feature, line 198
experiment_in_feature(experiment, feature) ==
  experiment # None /\ experiment.id \in Range(feature.experimentIds)

\* the last listed experiment id
first_experiment_id_from_end(feature) ==
  feature.experimentIds[Len(feature.experimentIds)]

\* get_variation_for_feature, line 209: feature.experimentIds[0]
first_experiment_id(feature) == feature.experimentIds[1]

\* the rollout applied to every feature that has a layer id
rollout_applies_after_variation(variation, feature) == Truthy(feature.layerId)

\* get_variation_for_feature, line 219
rollout_applies(variation, feature) ==
  variation = None /\ Truthy(feature.layerId)

\* get_variation_for_feature, lines 193-216: the group strategy, or the
\* feature's first experiment
feature_experiment(c, ups, st, feature, user_id, attributes, o) ==
  IF Truthy(feature.groupId)
  THEN LET group == get_group(c, feature.groupId)
       IN  IF group.ret # None
           THEN LET experiment == get_experiment_in_group(c, group.ret, user_id)
                    trace == <<Called("get_experiment_in_group")>> \o experiment.trace
                IN  IF experiment_in_feature(experiment.ret, feature)
                    THEN [call_get_variation(c, ups, st, "experiment", experiment.ret,
                                             user_id, attributes, FALSE, o)
                          EXCEPT !.trace = trace \o @]
                    ELSE Out(None, NoneStr, trace, <<>>, st)
           ELSE Out(None, NoneStr,
                    group.trace \o <<Log(ERROR, "Provided group is not in datafile.")>>,
                    <<>>, st)
  ELSE IF Len(feature.experimentIds) > 0
  THEN LET experiment == get_experiment_from_id(c, first_experiment_id(feature))
       IN  IF experiment.ret # None
           THEN [call_get_variation(c, ups, st, "experiment", experiment.ret,
                                    user_id, attributes, FALSE, o)
                 EXCEPT !.trace = experiment.trace \o @]
           ELSE Out(None, NoneStr, experiment.trace, <<>>, st)
  ELSE Out(None, NoneStr, <<>>, <<>>, st)

\* DecisionService.get_variation_for_feature
get_variation_for_feature(c, ups, st, feature, user_id, attributes, o) ==
  CHOOSE out \in
    {IF rollout_applies(experiment.ret, feature)
     THEN CHOOSE with_rollout \in
            {Out(rollout.ret, rollout.raised,
                 experiment.trace \o get_layer_from_id(c, feature.layerId).trace
                   \o <<Called("get_variation_for_layer")>> \o rollout.trace,
                 experiment.calls \o rollout.calls, rollout.store) :
               rollout \in
                 {get_variation_for_layer(c, ups, experiment.store,
                                          get_layer_from_id(c, feature.layerId).ret,
                                          user_id, attributes, TRUE, o)}} :
            TRUE
     ELSE experiment :
       experiment \in {feature_experiment(c, ups, st, feature, user_id,
                                          attributes, o)}} :
    TRUE

-----------------------------------------------------------------------------
(* the datafiles, users and stored profiles the model ranges over *)

\* the number of users that call
NumUsers == 2

UserIds == <<"test_user", "user_1", "user_2", "user_3">>

Users == {UserIds[i] : i \in 1..NumUsers}

\* the attributes of a call: none, or one attribute value
Attributes == {NoneStr, "firefox"}

Callers == {"c1", "c2"}

\* test_experiment: its status, forced variations, audiences and traffic
\* allocation vary
TestExperiment(status, forcedVariations, audienceIds, trafficAllocation) ==
  [id |-> "111127", key |-> "test_experiment", status |-> status,
   audienceIds |-> audienceIds,
   variations |-> <<[id |-> "111128", key |-> "control", variables |-> <<>>],
                    [id |-> "111129", key |-> "variation", variables |-> <<>>]>>,
   forcedVariations |-> forcedVariations,
   trafficAllocation |-> trafficAllocation,
   layerId |-> "111182"]

SecondExperiment ==
  [id |-> "222227", key |-> "second_experiment", status |-> "Running",
   audienceIds |-> <<>>,
   variations |-> <<[id |-> "222228", key |-> "only", variables |-> <<>>]>>,
   forcedVariations |-> EmptyDict,
   trafficAllocation |-> <<[entityId |-> "222228", endOfRange |-> 10000]>>,
   layerId |-> "222282"]

Statuses == {"Running", "Paused"}

ForcedVariationMaps ==
  {EmptyDict,
   [u \in {"test_user"} |-> "control"],
   [u \in {"test_user"} |-> "deleted_variation"]}

AudienceIdLists == {<<>>, <<"11154">>}

TrafficAllocations ==
  {<<>>,
   <<[entityId |-> "111128", endOfRange |-> 4000],
     [entityId |-> "111129", endOfRange |-> 10000]>>}

Datafile(status, forcedVariations, audienceIds, trafficAllocation) ==
  [version |-> V2_CONFIG_VERSION,
   groups |-> <<>>,
   experiments |->
     <<TestExperiment(status, forcedVariations, audienceIds, trafficAllocation),
       SecondExperiment>>,
   events |-> <<[id |-> "111095", key |-> "test_event"]>>,
   attributes |-> <<[id |-> "111094", key |-> "browser"]>>,
   audiences |-> <<[id |-> "11154", conditions |-> {"firefox"}]>>,
   features |-> <<>>,
   layers |-> <<>>]

Datafiles ==
  {Datafile(s, fv, a, t) :
     s \in Statuses, fv \in ForcedVariationMaps,
     a \in AudienceIdLists, t \in TrafficAllocations}

Decision(variation_id) == [variation_id |-> variation_id]

\* experiment bucket maps a store may hold
BucketMaps ==
  {EmptyDict,
   [e \in {"111127"} |-> Decision("111128")],
   [e \in {"111127"} |-> Decision("111129")],
   [e \in {"222227"} |-> Decision("222228")],
   [e \in {"111127", "222227"} |->
      IF e = "111127" THEN Decision("999999") ELSE Decision("222228")],
   [e \in {"111127"} |-> Decision("222228")]}

\* what the store may hold for a user before the first call
StoredValues(user_id) ==
  {None, PyStr("invalid_profile"),
   PyDict([experiment_bucket_map |->
             [e \in {"111127", "222227"} |->
                IF e = "111127" THEN Decision("111129") ELSE Decision("222228")]]),
   PyDict([user_id |-> user_id])}
  \cup {PyDict(UserProfile(user_id, m)) : m \in BucketMaps}

InitialStores ==
  {[u \in Users |-> IF u = "test_user" THEN v ELSE w] :
     v \in StoredValues("test_user"),
     w \in {None}}

-----------------------------------------------------------------------------
(* the state machine *)

Init ==
  /\ \E datafile \in Datafiles : config = ProjectConfig(datafile)
  /\ user_profile_service \in BOOLEAN
  /\ store \in InitialStores
  /\ pc = [p \in Callers |-> "idle"]
  /\ frame = [p \in Callers |-> IdleFrame]
  /\ assigned = {}

\* a decision that was bucketed and saved
Assignment(user_id, experiment, variation) ==
  [user_id |-> user_id, experiment_id |-> experiment.id,
   variation_id |-> variation.id]

\* the assignments without those of a user whose store operation failed
Forget(assignments, user_id) ==
  {a \in assignments : a.user_id # user_id}

Goto(p, r) ==
  /\ pc' = [pc EXCEPT ![p] = r.pc]
  /\ frame' = [frame EXCEPT ![p] = r.frame]

\* a caller enters get_variation(experiment, user_id, attributes,
\* ignore_user_profile) and runs it up to the lookup
GetVariation(p) ==
  /\ pc[p] = "idle"
  /\ config.parsing_succeeded
  /\ \E experiment \in Range(config.experiment_key_map), user_id \in Users,
        attributes \in Attributes, ignore_user_profile \in BOOLEAN :
       Goto(p, get_variation_begin(config, user_profile_service,
                 [IdleFrame EXCEPT !.experiment = experiment,
                                   !.user_id = user_id,
                                   !.attributes = attributes,
                                   !.ignore_user_profile = ignore_user_profile]))
  /\ UNCHANGED <<config, user_profile_service, store, assigned>>

\* user_profile_service.lookup returns what the store holds, or raises
Lookup(p) ==
  /\ pc[p] = "lookup"
  /\ \E raised \in BOOLEAN :
       /\ Goto(p, get_variation_lookup(config, frame[p], raised, store[frame[p].user_id]))
       /\ assigned' = IF raised THEN Forget(assigned, frame[p].user_id) ELSE assigned
  /\ UNCHANGED <<config, user_profile_service, store>>

\* the audience gate and the bucketing
Decide(p) ==
  /\ pc[p] = "decide"
  /\ Goto(p, get_variation_decide(config, user_profile_service, frame[p]))
  /\ UNCHANGED <<config, user_profile_service, store, assigned>>

\* a store that adds the saved decisions to those it holds for the user
user_profile_service_save_merging(st, user_profile) ==
  [st EXCEPT ![user_profile.user_id] =
     IF @ = None \/ ~is_user_profile_valid(@)
     THEN PyDict(user_profile)
     ELSE PyDict([user_profile EXCEPT
                    !.experiment_bucket_map =
                      Update(st[user_profile.user_id].value.experiment_bucket_map,
                             user_profile.experiment_bucket_map)])]

\* user_profile_service.save(user_profile.__dict__): the store holds the
\* saved dict in place of what it held for the user
user_profile_service_save(st, user_profile) ==
  [st EXCEPT ![user_profile.user_id] = PyDict(user_profile)]

\* user_profile_service.save stores the profile under its user id, or raises
Save(p) ==
  /\ pc[p] = "save"
  /\ \E raised \in BOOLEAN :
       /\ Goto(p, get_variation_save(frame[p], raised))
       /\ store' = IF raised THEN store
                   ELSE user_profile_service_save(store, frame[p].user_profile)
       /\ assigned' = IF raised THEN Forget(assigned, frame[p].user_id)
                      ELSE assigned \cup {Assignment(frame[p].user_id,
                                                     frame[p].experiment,
                                                     frame[p].variation)}
  /\ UNCHANGED <<config, user_profile_service>>

\* the caller takes the return value
Finish(p) ==
  /\ pc[p] = "done"
  /\ pc' = [pc EXCEPT ![p] = "idle"]
  /\ frame' = [frame EXCEPT ![p] = IdleFrame]
  /\ UNCHANGED <<config, user_profile_service, store, assigned>>

\* one caller at a time
Next ==
  \/ GetVariation("c1")
  \/ Lookup("c1")
  \/ Decide("c1")
  \/ Save("c1")
  \/ Finish("c1")

Spec == Init /\ [][Next]_vars

-----------------------------------------------------------------------------
(* calls over a sequence of configuration snapshots *)

\* traffic allocations that put the same user into different variations
StickyTrafficAllocations ==
  {<<[entityId |-> "111128", endOfRange |-> 4000],
     [entityId |-> "111129", endOfRange |-> 10000]>>,
   <<[entityId |-> "111129", endOfRange |-> 10000]>>}

\* the snapshots: test_experiment running or paused, with or without a
\* forced user, with or without an audience, under either allocation
StickyDatafiles ==
  {Datafile(s, fv, a, t) :
     s \in Statuses,
     fv \in {EmptyDict, [u \in {"test_user"} |-> "control"]},
     a \in AudienceIdLists, t \in StickyTrafficAllocations}

\* in snapshot c the experiment of the assignment is running, does not force
\* the user and has the variation
StillAllowed(c, a) ==
  LET experiment == Get(c.experiment_id_map, a.experiment_id)
  IN  /\ experiment # None
      /\ experiment.status = "Running"
      /\ a.user_id \notin DOMAIN experiment.forcedVariations
      /\ a.variation_id \in DOMAIN c.variation_id_map[experiment.key]

StickyInit ==
  /\ \E datafile \in StickyDatafiles : config = ProjectConfig(datafile)
  /\ user_profile_service = TRUE
  /\ store = [u \in Users |-> None]
  /\ pc = [p \in Callers |-> "idle"]
  /\ frame = [p \in Callers |-> IdleFrame]
  /\ assigned = {}

\* between two calls a decision service is made for a new snapshot
NewSnapshot ==
  /\ \A p \in Callers : pc[p] = "idle"
  /\ \E datafile \in StickyDatafiles :
       /\ config' = ProjectConfig(datafile)
       /\ config' # config
  /\ assigned' = {a \in assigned : StillAllowed(config', a)}
  /\ UNCHANGED <<user_profile_service, store, pc, frame>>

StickyNext ==
  \/ GetVariation("c1")
  \/ Lookup("c1")
  \/ Decide("c1")
  \/ Save("c1")
  \/ Finish("c1")
  \/ NewSnapshot

StickySpec == StickyInit /\ [][StickyNext]_vars

-----------------------------------------------------------------------------
(* features, rollouts and groups *)

\* an experiment of a group or a rule of a rollout, with one variation that
\* takes the traffic given
OneVariationExperiment(id, key, status, audienceIds, layerId, variation_id, traffic) ==
  [id |-> id, key |-> key, status |-> status, audienceIds |-> audienceIds,
   variations |-> <<[id |-> variation_id, key |-> variation_id, variables |-> <<>>]>>,
   forcedVariations |-> EmptyDict,
   trafficAllocation |->
     IF traffic = 0 THEN <<>>
     ELSE <<[entityId |-> variation_id, endOfRange |-> traffic]>>,
   layerId |-> layerId]

\* group 19228: how it splits its traffic between its two experiments; the
\* last table names an experiment that is in no map
GroupTrafficAllocations ==
  {<<[entityId |-> "32222", endOfRange |-> 6500],
     [entityId |-> "32223", endOfRange |-> 9000]>>,
   <<[entityId |-> "32222", endOfRange |-> 3000],
     [entityId |-> "32223", endOfRange |-> 10000]>>,
   <<[entityId |-> "99999", endOfRange |-> 10000]>>}

TestGroup(trafficAllocation) ==
  [id |-> "19228", policy |-> "random",
   experiments |->
     <<OneVariationExperiment("32222", "group_exp_1", "Running", <<>>, "111183",
                              "28901", MAX_TRAFFIC_VALUE),
       OneVariationExperiment("32223", "group_exp_2", "Running", <<>>, "111184",
                              "28905", MAX_TRAFFIC_VALUE)>>,
   trafficAllocation |-> trafficAllocation]

\* rollout 211111: three rules in order; the audience of the first rule and
\* the traffic of the second one vary
TestLayer(status, audienceIds, traffic) ==
  [id |-> "211111",
   experiments |->
     <<OneVariationExperiment("211127", "211127", status, audienceIds, "211111",
                              "211129", MAX_TRAFFIC_VALUE),
       OneVariationExperiment("211137", "211137", "Running", <<>>, "211111",
                              "211139", traffic),
       OneVariationExperiment("211147", "211147", "Running", <<>>, "211111",
                              "211149", MAX_TRAFFIC_VALUE)>>]

TestFeature(id, key, experimentIds, layerId) ==
  [id |-> id, key |-> key, experimentIds |-> experimentIds, layerId |-> layerId,
   variables |-> <<>>]

\* features of every shape: rollout only, experiments with and without a
\* rollout, group experiments with and without a rollout, a layer id that
\* is in no map, and nothing at all
TestFeatures ==
  <<TestFeature("91111", "rollout_feature", <<>>, "211111"),
    TestFeature("91112", "experiment_feature", <<"111127", "222227">>, ""),
    TestFeature("91113", "experiment_rollout_feature", <<"111127", "222227">>, "211111"),
    TestFeature("91114", "group_feature", <<"32222">>, ""),
    TestFeature("91115", "group_rollout_feature", <<"32223">>, "211111"),
    TestFeature("91116", "unknown_layer_feature", <<>>, "999999"),
    TestFeature("91117", "empty_feature", <<>>, "")>>

SecondRuleTraffic == {0, MAX_TRAFFIC_VALUE}

FeatureDatafile(group_traffic, audienceIds, rule_audienceIds, rule_traffic) ==
  [Datafile("Running", EmptyDict, audienceIds,
            <<[entityId |-> "111128", endOfRange |-> 4000],
              [entityId |-> "111129", endOfRange |-> 10000]>>)
   EXCEPT !.groups = <<TestGroup(group_traffic)>>,
          !.layers = <<TestLayer("Running", rule_audienceIds, rule_traffic)>>,
          !.features = TestFeatures]

FeatureDatafiles ==
  {FeatureDatafile(g, a, ra, rt) :
     g \in GroupTrafficAllocations, a \in AudienceIdLists,
     ra \in AudienceIdLists, rt \in SecondRuleTraffic}

\* whether the lookups and the saves of a call raise
Oracles == [lookup_raises : BOOLEAN, save_raises : BOOLEAN]

FeatureInit ==
  /\ \E datafile \in FeatureDatafiles : config = ProjectConfig(datafile)
  /\ user_profile_service = TRUE
  /\ store = [u \in Users |-> None]
  /\ pc = [p \in Callers |-> "idle"]
  /\ frame = [p \in Callers |-> IdleFrame]
  /\ assigned = {}

\* the number of decisions the store may hold when a call begins
MaxStoredDecisions == 1

\* the number of decisions the store holds
StoredDecisions(st) ==
  Cardinality(UNION {{<<u, e>> : e \in DOMAIN st[u].value.experiment_bucket_map} :
                       u \in {v \in Users : st[v] # None}})

\* the frame of a layer, feature, group or bucket call that has returned
CallFrame(op, subject, user_id, attributes, ignore_user_profile, out) ==
  [op |-> op, subject |-> subject, user_id |-> user_id, attributes |-> attributes,
   ignore_user_profile |-> ignore_user_profile,
   ret |-> out.ret, raised |-> out.raised, trace |-> out.trace, calls |-> out.calls]

\* a call that is done and has dropped the features from the index
Done_dropping_features(p, f, st) ==
  /\ pc' = [pc EXCEPT ![p] = "done"]
  /\ frame' = [frame EXCEPT ![p] = f]
  /\ store' = st
  /\ config' = [config EXCEPT !.feature_key_map = EmptyDict]
  /\ UNCHANGED <<user_profile_service, assigned>>

\* a call that is done leaves its frame and the store
Done(p, f, st) ==
  /\ pc' = [pc EXCEPT ![p] = "done"]
  /\ frame' = [frame EXCEPT ![p] = f]
  /\ store' = st
  /\ UNCHANGED <<config, user_profile_service, assigned>>

\* get_variation_for_layer(layer, user_id, attributes, ignore_user_profile);
\* ignore_user_profile is FALSE when the caller does not pass it
GetVariationForLayer(p) ==
  /\ pc[p] = "idle"
  /\ StoredDecisions(store) <= MaxStoredDecisions
  /\ \E layer \in Range(config.layer_id_map) \cup {None}, user_id \in Users,
        attributes \in Attributes, ignore_user_profile \in BOOLEAN, o \in Oracles :
       \E out \in {get_variation_for_layer(config, user_profile_service, store,
                                             layer, user_id, attributes,
                                             ignore_user_profile, o)} :
           Done(p,
                CallFrame("get_variation_for_layer", layer, user_id, attributes,
                          ignore_user_profile, out),
                out.store)

\* get_variation_for_feature(feature, user_id, attributes)
GetVariationForFeature(p) ==
  /\ pc[p] = "idle"
  /\ StoredDecisions(store) <= MaxStoredDecisions
  /\ \E feature \in Range(config.feature_key_map), user_id \in Users,
        attributes \in Attributes, o \in Oracles :
       \E out \in {get_variation_for_feature(config, user_profile_service, store,
                                               feature, user_id, attributes, o)} :
           Done(p,
                CallFrame("get_variation_for_feature", feature, user_id, attributes,
                          FALSE, out),
                out.store)

\* get_experiment_in_group(group, user_id)
GetExperimentInGroup(p) ==
  /\ pc[p] = "idle"
  /\ StoredDecisions(store) <= MaxStoredDecisions
  /\ \E group \in Range(config.group_id_map), user_id \in Users :
       LET experiment == get_experiment_in_group(config, group, user_id)
       IN  Done(p,
                CallFrame("get_experiment_in_group", group, user_id, NoneStr, FALSE,
                          Out(experiment.ret, NoneStr, experiment.trace, <<>>, store)),
                store)

\* bucketer.bucket(experiment, user_id)
Bucket(p) ==
  /\ pc[p] = "idle"
  /\ StoredDecisions(store) <= MaxStoredDecisions
  /\ \E experiment \in Range(config.experiment_key_map), user_id \in Users :
       Done(p,
            CallFrame("bucket", experiment, user_id, NoneStr, FALSE,
                      Out(bucket(config, experiment, user_id), NoneStr, <<>>, <<>>,
                          store)),
            store)

FeatureNext ==
  \/ GetVariationForLayer("c1")
  \/ GetVariationForFeature("c1")
  \/ GetExperimentInGroup("c1")
  \/ Bucket("c1")
  \/ Finish("c1")

FeatureSpec == FeatureInit /\ [][FeatureNext]_vars

-----------------------------------------------------------------------------
(* calls of the bucketer *)

\* the parents (experiments, groups) a bucketing id is scoped under
ParentIds == {"111127", "222227", "19228", "32222"}

TrafficAllocation(entityId, endOfRange) ==
  [entityId |-> entityId, endOfRange |-> endOfRange]

\* tables: empty, covering, with a gap at the end, with ends at the bucket
\* values of test_user and user_1 under 111127, unsorted, with an empty
\* first range, with a repeated end of range
TrafficAllocationTables ==
  {<<>>,
   <<TrafficAllocation("111128", 5000), TrafficAllocation("111129", 10000)>>,
   <<TrafficAllocation("111128", 3000), TrafficAllocation("111129", 6000)>>,
   <<TrafficAllocation("111128", 2), TrafficAllocation("111129", 6190)>>,
   <<TrafficAllocation("111128", 6000), TrafficAllocation("111129", 3000),
     TrafficAllocation("111130", 10000)>>,
   <<TrafficAllocation("111128", 0), TrafficAllocation("111129", 10000)>>,
   <<TrafficAllocation("111128", 5000), TrafficAllocation("111129", 5000),
     TrafficAllocation("111130", 10000)>>}

\* bucket values at and around the ends of range of the tables
BucketValues == {0, 1, 2, 2999, 3000, 4999, 5000, 5999, 6000, 6189, 6190, 9999}

\* the strings handed to _generate_bucket_value: a bucketing id followed by
\* a parent id, a bucketing id alone, the empty string
BucketingKeys ==
  {Bytes(user_id) \o Bytes(parent_id) : user_id \in Users, parent_id \in ParentIds}
    \cup {Bytes(user_id) : user_id \in Users} \cup {<<>>}

BucketerInit ==
  /\ config = ProjectConfig(Datafile("Running", [u \in {} |-> ""], <<>>,
                                     CHOOSE a \in TrafficAllocations : TRUE))
  /\ user_profile_service = FALSE
  /\ store = [u \in Users |-> None]
  /\ pc = [p \in Callers |-> "idle"]
  /\ frame = [p \in Callers |-> IdleFrame]
  /\ assigned = {}

\* the frame of a bucketer call that has returned
BucketerFrame(op, bucketing_key, bucket_value, traffic_allocations, ret) ==
  [op |-> op, bucketing_key |-> bucketing_key, bucket_value |-> bucket_value,
   traffic_allocations |-> traffic_allocations, ret |-> ret]

\* a bucketer call returns; it changes nothing else
BucketerDone(p, f) ==
  /\ pc' = [pc EXCEPT ![p] = "done"]
  /\ frame' = [frame EXCEPT ![p] = f]
  /\ UNCHANGED <<config, user_profile_service, store, assigned>>

\* bucketer._generate_bucket_value(bucketing_key)
GenerateBucketValue(p) ==
  /\ pc[p] = "idle"
  /\ \E bucketing_key \in BucketingKeys :
       BucketerDone(p, BucketerFrame("generate_bucket_value", bucketing_key,
                                     generate_bucket_value(bucketing_key), <<>>,
                                     NoneStr))

\* bucketer.find_bucket(bucketing_id, parent_id, traffic_allocations)
FindBucket(p) ==
  /\ pc[p] = "idle"
  /\ \E bucketing_id \in Users, parent_id \in ParentIds,
        traffic_allocations \in TrafficAllocationTables :
       BucketerDone(p, BucketerFrame("find_bucket",
                                     Bytes(bucketing_id) \o Bytes(parent_id),
                                     BucketValue(bucketing_id, parent_id),
                                     traffic_allocations,
                                     find_bucket(bucketing_id, parent_id,
                                                 traffic_allocations)))

\* the scan of find_bucket for a bucket value
FirstAllocation(p) ==
  /\ pc[p] = "idle"
  /\ \E bucket_value \in BucketValues,
        traffic_allocations \in TrafficAllocationTables :
       BucketerDone(p, BucketerFrame("first_allocation", <<>>, bucket_value,
                                     traffic_allocations,
                                     first_allocation(traffic_allocations,
                                                      bucket_value, 1)))

\* two callers of the bucketer
BucketerNext ==
  \E p \in Callers :
    \/ GenerateBucketValue(p)
    \/ FindBucket(p)
    \/ FirstAllocation(p)
    \/ Finish(p)

BucketerSpec == BucketerInit /\ [][BucketerNext]_vars

-----------------------------------------------------------------------------
(* the index: construction from a datafile, accessors, and the decision
   calls that read it *)

\* supported, unsupported, unrecognized, and no version at all
ConfigVersions == {V1_CONFIG_VERSION, V2_CONFIG_VERSION, "3", NoneStr}

\* an experiment whose variations use feature variables, or not
VariableExperiment ==
  [id |-> "333337", key |-> "variable_experiment", status |-> "Running",
   audienceIds |-> <<>>,
   variations |->
     <<[id |-> "333338", key |-> "with_usages",
        variables |-> <<[id |-> "127", value |-> "true"],
                        [id |-> "128", value |-> "42"],
                        [id |-> "129", value |-> "4.99"],
                        [id |-> "130", value |-> "red"],
                        [id |-> "131", value |-> "abc"]>>],
       [id |-> "333339", key |-> "without_usages", variables |-> <<>>]>>,
   forcedVariations |-> EmptyDict,
   trafficAllocation |-> <<[entityId |-> "333338", endOfRange |-> 5000],
                           [entityId |-> "333339", endOfRange |-> 10000]>>,
   layerId |-> "333382"]

\* an experiment that declares no variations
EmptyExperiment ==
  [id |-> "444447", key |-> "empty_experiment", status |-> "Running",
   audienceIds |-> <<>>, variations |-> <<>>, forcedVariations |-> EmptyDict,
   trafficAllocation |-> <<>>, layerId |-> "444482"]

\* a feature with a variable of every type, one whose value does not parse
\* and one no variation uses
VariableFeature ==
  [id |-> "91118", key |-> "variable_feature", experimentIds |-> <<"333337">>,
   layerId |-> "",
   variables |->
     <<[id |-> "127", key |-> "is_on", type |-> "boolean", defaultValue |-> "false"],
       [id |-> "128", key |-> "count", type |-> "integer", defaultValue |-> "10"],
       [id |-> "129", key |-> "price", type |-> "double", defaultValue |-> "10"],
       [id |-> "130", key |-> "colour", type |-> "string", defaultValue |-> "blue"],
       [id |-> "131", key |-> "bad_count", type |-> "integer", defaultValue |-> "-7"],
       [id |-> "132", key |-> "unused", type |-> "string", defaultValue |-> "none"]>>]

\* a feature that names an experiment id no experiment has
DanglingFeature ==
  [id |-> "91119", key |-> "dangling_feature", experimentIds |-> <<"999997">>,
   layerId |-> "", variables |-> <<>>]

\* a second group, of another policy, with one experiment
SecondGroup ==
  [id |-> "19229", policy |-> "overlapping",
   experiments |->
     <<OneVariationExperiment("32224", "group_exp_3", "Running", <<>>, "111185",
                              "28909", MAX_TRAFFIC_VALUE)>>,
   trafficAllocation |-> <<[entityId |-> "32224", endOfRange |-> MAX_TRAFFIC_VALUE]>>]

\* features whose experiments are in a group only in part, and in two groups
GroupedFeatures ==
  <<TestFeature("91120", "mixed_feature", <<"111127", "32223">>, ""),
    TestFeature("91121", "two_group_feature", <<"32224", "32222">>, "")>>

ConfigShapes == {"full", "empty", "dangling"}

\* the datafile of a version and shape
ConfigDatafile(version, shape) ==
  LET base == FeatureDatafile(CHOOSE g \in GroupTrafficAllocations :
                                g[1].endOfRange = 6500,
                              <<>>, <<>>, MAX_TRAFFIC_VALUE)
      full == [base EXCEPT !.version = version,
                           !.groups = @ \o <<SecondGroup>>,
                           !.experiments = @ \o <<VariableExperiment, EmptyExperiment>>,
                           !.features = @ \o <<VariableFeature>> \o GroupedFeatures]
  IN  CASE shape = "full" -> full
        [] shape = "dangling" -> [full EXCEPT !.features = @ \o <<DanglingFeature>>]
        [] shape = "empty" ->
             [version |-> version, groups |-> <<>>, experiments |-> <<>>,
              events |-> <<>>, attributes |-> <<>>, audiences |-> <<>>,
              features |-> <<>>, layers |-> <<>>]

ConfigDatafiles ==
  {ConfigDatafile(version, shape) : version \in ConfigVersions, shape \in ConfigShapes}

\* keys and ids handed to the getters: of every kind of entity, and unknown
ConfigKeys ==
  {"test_experiment", "111127", "empty_experiment", "444447", "group_exp_1",
   "19228", "11154", "test_event", "browser", "variable_feature", "211111",
   "unknown"}

\* variation keys and ids handed to the variation getters
VariationKeys == {"control", "111128", "unknown"}

ConfigInit ==
  /\ \E datafile \in ConfigDatafiles :
       /\ construct(datafile).raised = NoneStr
       /\ config = construct(datafile).ret
  /\ user_profile_service = TRUE
  /\ store = [u \in Users |-> None]
  /\ pc = [p \in Callers |-> "idle"]
  /\ frame = [p \in Callers |-> IdleFrame]
  /\ assigned = {}

\* the frame of a construction or of an accessor call that has ended
ConfigFrame(op, a, b, out) ==
  [op |-> op, a |-> a, b |-> b, ret |-> out.ret, raised |-> out.raised,
   trace |-> out.trace]

\* the index the service holds after a construction: the new instance, or
\* the one it had when the construction raised
index_after(c, out) == IF out.raised = NoneStr THEN out.ret ELSE c

\* ProjectConfig(datafile, ...): a new index replaces the one in use
Construct(p) ==
  /\ pc[p] = "idle"
  /\ \E datafile \in ConfigDatafiles :
       \E out \in {construct(datafile)} :
         /\ config' = index_after(config, out)
         /\ pc' = [pc EXCEPT ![p] = "done"]
         /\ frame' = [frame EXCEPT ![p] = ConfigFrame("ProjectConfig", datafile,
                                                      NoneStr, out)]
  /\ UNCHANGED <<user_profile_service, store, assigned>>

\* an accessor call ends; it leaves the index and the store alone
AccessorDone(p, f) ==
  /\ pc' = [pc EXCEPT ![p] = "done"]
  /\ frame' = [frame EXCEPT ![p] = f]
  /\ UNCHANGED <<config, user_profile_service, store, assigned>>

\* one of the getters, called with a key or id
Getter(p) ==
  /\ pc[p] = "idle"
  /\ \E name \in Getters, a \in ConfigKeys :
       \E b \in IF name \in {"get_variation_from_key", "get_variation_from_id"}
                THEN VariationKeys ELSE {NoneStr} :
         AccessorDone(p, ConfigFrame(name, a, b, getter(config, name, a, b)))

\* was_parsing_successful()
WasParsingSuccessful(p) ==
  /\ pc[p] = "idle"
  /\ AccessorDone(p, ConfigFrame("was_parsing_successful", NoneStr, NoneStr,
                                 Outcome(PyBool(was_parsing_successful(config)),
                                         NoneStr, <<>>)))

\* the variations of the index
IndexedVariations(c) ==
  UNION {Range(c.variation_key_map[k]) : k \in DOMAIN c.variation_key_map}

\* the variables of the features of the index
IndexedVariables(c) ==
  UNION {Range(c.feature_key_map[k].variables) : k \in DOMAIN c.feature_key_map}

\* get_variable_value_for_variation(variable, variation)
GetVariableValueForVariation(p) ==
  /\ pc[p] = "idle"
  /\ config.parsing_succeeded
  /\ \E variable \in IndexedVariables(config) \cup {None},
        variation \in IndexedVariations(config) \cup {None} :
       AccessorDone(p, ConfigFrame("get_variable_value_for_variation",
                                   variable, variation,
                                   get_variable_value_for_variation(config, variable,
                                                                    variation)))

\* get_variable_for_feature(feature_key, variable_key)
GetVariableForFeature(p) ==
  /\ pc[p] = "idle"
  /\ config.parsing_succeeded
  /\ \E feature_key \in {"variable_feature", "rollout_feature", "unknown"},
        variable_key \in {"is_on", "count", "unknown"} :
       LET variable == get_variable_for_feature(config, feature_key, variable_key)
       IN  AccessorDone(p, ConfigFrame("get_variable_for_feature", feature_key,
                                       variable_key,
                                       Outcome(variable.ret, NoneStr, variable.trace)))

\* get_variation(experiment, user_id, attributes, ignore_user_profile) as
\* one call
GetVariationCall(p) ==
  /\ pc[p] = "idle"
  /\ config.parsing_succeeded
  /\ StoredDecisions(store) < MaxStoredDecisions
  /\ \E experiment \in Range(config.experiment_key_map), user_id \in Users,
        ignore_user_profile \in BOOLEAN, o \in Oracles :
       \E f \in {get_variation(config, user_profile_service,
                               Arguments(experiment, user_id, NoneStr,
                                         ignore_user_profile),
                               store[user_id], o.lookup_raises, o.save_raises).frame} :
         Done(p, CallFrame("get_variation", experiment, user_id, NoneStr,
                           ignore_user_profile,
                           Out(f.ret, NoneStr, f.trace, <<>>, store)),
              store_after(store, f))

\* get_forced_variation(experiment, user_id)
GetForcedVariation(p) ==
  /\ pc[p] = "idle"
  /\ config.parsing_succeeded
  /\ \E experiment \in Range(config.experiment_key_map), user_id \in Users :
       LET variation == get_forced_variation(config, experiment, user_id)
       IN  Done(p, CallFrame("get_forced_variation", experiment, user_id, NoneStr,
                             FALSE,
                             Out(variation.ret, NoneStr, variation.trace, <<>>, store)),
                store)

\* get_stored_variation(experiment, user_profile) for the profiles a store
\* may hold
GetStoredVariation(p) ==
  /\ pc[p] = "idle"
  /\ config.parsing_succeeded
  /\ \E experiment \in Range(config.experiment_key_map), user_id \in Users,
        experiment_bucket_map \in BucketMaps :
       LET variation == get_stored_variation(config, experiment,
                                             UserProfile(user_id, experiment_bucket_map))
       IN  Done(p, CallFrame("get_stored_variation", experiment, user_id, NoneStr,
                             FALSE,
                             Out(variation.ret, NoneStr, variation.trace, <<>>, store)),
                store)

ConfigNext ==
  \/ Construct("c1")
  \/ Getter("c1")
  \/ WasParsingSuccessful("c1")
  \/ GetVariableValueForVariation("c1")
  \/ GetVariableForFeature("c1")
  \/ GetVariationCall("c1")
  \/ GetForcedVariation("c1")
  \/ GetStoredVariation("c1")
  \/ (config.parsing_succeeded /\ StoredDecisions(store) < MaxStoredDecisions
        /\ GetVariationForLayer("c1"))
  \/ (config.parsing_succeeded /\ StoredDecisions(store) < MaxStoredDecisions
        /\ GetVariationForFeature("c1"))
  \/ (config.parsing_succeeded /\ GetExperimentInGroup("c1"))
  \/ Finish("c1")

ConfigSpec == ConfigInit /\ [][ConfigNext]_vars

-----------------------------------------------------------------------------
(* two concurrent callers of get_variation *)

\* one snapshot with two running experiments that take every user, a
\* service, and a store that holds nothing yet
ConcurrentInit ==
  /\ config = ProjectConfig(Datafile("Running", EmptyDict, <<>>,
                                     <<[entityId |-> "111128", endOfRange |-> 5000],
                                       [entityId |-> "111129", endOfRange |-> 10000]>>))
  /\ user_profile_service = TRUE
  /\ store = [u \in Users |-> None]
  /\ pc = [p \in Callers |-> "idle"]
  /\ frame = [p \in Callers |-> IdleFrame]
  /\ assigned = {}

\* the steps of the two calls interleave; a call begins while the store
\* holds fewer than MaxStoredDecisions decisions
ConcurrentNext ==
  \E p \in Callers :
    \/ (StoredDecisions(store) < MaxStoredDecisions /\ GetVariation(p))
    \/ Lookup(p)
    \/ Decide(p)
    \/ Save(p)
    \/ Finish(p)

ConcurrentSpec == ConcurrentInit /\ [][ConcurrentNext]_vars

-----------------------------------------------------------------------------
(* two calls of get_variation for the experiments of a mutex group *)

\* forced variations of group_exp_1
GroupForcedVariationMaps == {EmptyDict, [u \in {"test_user"} |-> "28901"]}

\* a datafile whose only experiments are the two of group 19228
MutexDatafile(forcedVariations, trafficAllocation) ==
  [Datafile("Running", EmptyDict, <<>>, <<>>)
   EXCEPT !.experiments = <<>>,
          !.groups =
            <<[TestGroup(trafficAllocation)
               EXCEPT !.experiments[1].forcedVariations = forcedVariations]>>]

\* the store holds nothing, or a decision for group_exp_1 of an earlier
\* snapshot
MutexStores ==
  {[u \in Users |-> None],
   [u \in Users |->
      IF u = "test_user"
      THEN PyDict(UserProfile(u, [e \in {"32222"} |-> Decision("28901")]))
      ELSE None]}

MutexInit ==
  /\ \E forcedVariations \in GroupForcedVariationMaps,
        trafficAllocation \in GroupTrafficAllocations :
       config = ProjectConfig(MutexDatafile(forcedVariations, trafficAllocation))
  /\ user_profile_service = TRUE
  /\ store \in MutexStores
  /\ pc = [p \in Callers |-> "idle"]
  /\ frame = [p \in Callers |-> IdleFrame]
  /\ assigned = {}

\* the second caller calls when the first call has returned, so that the
\* results of two calls are held together
MutexTurn(p) == IF p = "c1" THEN pc["c2"] = "idle" ELSE pc["c1"] = "done"

\* two calls, one after the other; a call begins while the store holds no
\* more than MaxStoredDecisions decisions
MutexNext ==
  \E p \in Callers :
    \/ (MutexTurn(p) /\ StoredDecisions(store) <= MaxStoredDecisions /\ GetVariation(p))
    \/ Lookup(p)
    \/ Decide(p)
    \/ Save(p)
    \/ Finish(p)

MutexSpec == MutexInit /\ [][MutexNext]_vars

-----------------------------------------------------------------------------
(* two concurrent callers of get_variation for one experiment *)

\* one running experiment that takes every user
RaceDatafile ==
  [Datafile("Running", EmptyDict, <<>>,
            <<[entityId |-> "111128", endOfRange |-> 5000],
              [entityId |-> "111129", endOfRange |-> 10000]>>)
   EXCEPT !.experiments = <<@[1]>>]

\* the store holds nothing, or a decision of test_user for either variation
\* of the experiment or for a variation it does not have
RaceStores ==
  {[u \in Users |-> None]}
  \cup {[u \in Users |->
           IF u = "test_user"
           THEN PyDict(UserProfile(u, [e \in {"111127"} |-> Decision(variation_id)]))
           ELSE None] :
          variation_id \in {"111128", "111129", "999999"}}

RaceInit ==
  /\ config = ProjectConfig(RaceDatafile)
  /\ user_profile_service = TRUE
  /\ store \in RaceStores
  /\ pc = [p \in Callers |-> "idle"]
  /\ frame = [p \in Callers |-> IdleFrame]
  /\ assigned = {}

\* the other caller has not returned yet: a call that begins now runs
\* concurrently with the other caller's call, if there is one
OtherNotReturned(p) == \A q \in Callers \ {p} : pc[q] # "done"

\* no other caller is within a call
OthersAtRest(p) == \A q \in Callers \ {p} : pc[q] \in {"idle", "done"}

\* the steps of two calls interleave; the callers take their results when
\* both calls have returned, and then call again
RaceNext ==
  \E p \in Callers :
    \/ (OtherNotReturned(p) /\ GetVariation(p))
    \/ Lookup(p)
    \/ Decide(p)
    \/ Save(p)
    \/ (OthersAtRest(p) /\ Finish(p))

RaceSpec == RaceInit /\ [][RaceNext]_vars

-----------------------------------------------------------------------------
(* properties of get_variation *)

\* the trace holds a call of op
Has(trace, op) == \E i \in DOMAIN trace : trace[i].op = op

\* how many calls of op the trace holds
Count(trace, op) == Cardinality({i \in DOMAIN trace : trace[i].op = op})

\* the trace holds a call of op with the given outcome
HasOutcome(trace, op, outcome) ==
  \E i \in DOMAIN trace : trace[i].op = op /\ trace[i].msg = outcome

\* in the trace, entry e directly follows a call of op with the given outcome
FollowedBy(trace, op, outcome, e) ==
  \A i \in DOMAIN trace :
    (trace[i].op = op /\ trace[i].msg = outcome) =>
      (i + 1 \in DOMAIN trace /\ trace[i + 1] = e)

\* the call of caller p has returned
Returned(p) == pc[p] = "done"

\* the user of the call is forced into a variation the experiment has
ForcedInExistingVariation(f) ==
  /\ f.user_id \in DOMAIN f.experiment.forcedVariations
  /\ f.experiment.forcedVariations[f.user_id]
       \in DOMAIN config.variation_key_map[f.experiment.key]

\* the value is a well-formed profile whose decision for the experiment
\* names a variation the experiment has
HoldsDecisionFor(value, experiment) ==
  /\ is_user_profile_valid(value)
  /\ experiment.id \in DOMAIN value.value.experiment_bucket_map
  /\ value.value.experiment_bucket_map[experiment.id].variation_id
       \in DOMAIN config.variation_id_map[experiment.key]

\* the call's lookup returned a profile with a decision for the experiment
LookedUpDecision(f) ==
  /\ HasOutcome(f.trace, "lookup", "returned")
  /\ HoldsDecisionFor(f.retrieved_profile, f.experiment)

\* C1: for an experiment that is not Running, get_variation returns None
\* after exactly one log call and nothing else: no forced-variation check,
\* no lookup, no stored-decision check, no audience check, no bucketing and
\* no save, whatever the forced map, the store, the audience and the
\* traffic allocation are.
C1_NotRunningReturnsNone ==
  \A p \in Callers :
    (Returned(p) /\ frame[p].experiment.status # "Running") =>
      /\ frame[p].ret = None
      /\ frame[p].trace = <<Log(INFO, "Experiment is not running.")>>
      /\ frame[p].saved = <<>>

\* a paused experiment whose user is forced, has a stored decision, matches
\* the audience and would be bucketed
C1_Witness ==
  \E p \in Callers :
    /\ Returned(p)
    /\ frame[p].experiment.status = "Paused"
    /\ ForcedInExistingVariation(frame[p])
    /\ user_profile_service /\ ~frame[p].ignore_user_profile
    /\ HoldsDecisionFor(store[frame[p].user_id], frame[p].experiment)
    /\ is_user_in_experiment(config, frame[p].experiment, frame[p].attributes)
    /\ bucket(config, frame[p].experiment, frame[p].user_id) # None

\* C2: for a Running experiment whose forced-variation map names an
\* existing variation key for the user, get_variation returns that
\* variation and performs no lookup, no stored-decision check, no audience
\* check, no bucketing and no save.
C2_ForcedVariationWins ==
  \A p \in Callers :
    (/\ Returned(p)
     /\ frame[p].experiment.status = "Running"
     /\ ForcedInExistingVariation(frame[p])) =>
      /\ frame[p].ret =
           config.variation_key_map[frame[p].experiment.key][
             frame[p].experiment.forcedVariations[frame[p].user_id]]
      /\ ~Has(frame[p].trace, "lookup")
      /\ ~Has(frame[p].trace, "get_stored_variation")
      /\ ~Has(frame[p].trace, "is_user_in_experiment")
      /\ ~Has(frame[p].trace, "bucket")
      /\ ~Has(frame[p].trace, "save")
      /\ frame[p].saved = <<>>

\* a forced user whose stored decision and whose bucket are another
\* variation, and whom the audience gate would reject
C2_Witness ==
  \E p \in Callers :
    /\ Returned(p)
    /\ frame[p].experiment.status = "Running"
    /\ ForcedInExistingVariation(frame[p])
    /\ user_profile_service /\ ~frame[p].ignore_user_profile
    /\ HoldsDecisionFor(store[frame[p].user_id], frame[p].experiment)
    /\ store[frame[p].user_id].value.experiment_bucket_map[frame[p].experiment.id].variation_id
         # frame[p].ret.id
    /\ ~is_user_in_experiment(config, frame[p].experiment, frame[p].attributes)
    /\ frame[p].ret.key = "control"

\* C3: for a Running experiment and a user who is not forced, when the
\* lookup returns a well-formed profile whose decision for the experiment
\* resolves, get_variation returns the stored variation and performs no
\* audience check, no bucketing and no save.
C3_StoredDecisionWins ==
  \A p \in Callers :
    (/\ Returned(p)
     /\ frame[p].experiment.status = "Running"
     /\ frame[p].user_id \notin DOMAIN frame[p].experiment.forcedVariations
     /\ LookedUpDecision(frame[p])) =>
      /\ frame[p].ret =
           config.variation_id_map[frame[p].experiment.key][
             frame[p].retrieved_profile.value.experiment_bucket_map[
               frame[p].experiment.id].variation_id]
      /\ ~Has(frame[p].trace, "is_user_in_experiment")
      /\ ~Has(frame[p].trace, "bucket")
      /\ ~Has(frame[p].trace, "save")
      /\ frame[p].saved = <<>>

\* a stored decision is returned to a user whom the audience gate rejects
\* now and whose hash falls into another variation
C3_Witness ==
  \E p \in Callers :
    /\ Returned(p)
    /\ frame[p].user_id \notin DOMAIN frame[p].experiment.forcedVariations
    /\ LookedUpDecision(frame[p])
    /\ frame[p].ret # None
    /\ ~is_user_in_experiment(config, frame[p].experiment, frame[p].attributes)
    /\ find_bucket(frame[p].user_id, frame[p].experiment.id,
                   frame[p].experiment.trafficAllocation) \notin {NoneStr, frame[p].ret.id}

\* the call ignores the user profile, or no user profile service is there
ProfileUnused(f, ups) == f.ignore_user_profile \/ ~ups

\* C4: with ignore_user_profile = true, or without a user profile service,
\* a call performs neither lookup nor save on any path, and leaves the
\* store unchanged.
C4_IgnoredProfileTouchesNoStore ==
  [][\A p \in Callers :
       (pc'[p] # "idle" /\ ProfileUnused(frame'[p], user_profile_service')) =>
         /\ store' = store
         /\ pc'[p] \notin {"lookup", "save"}
         /\ ~Has(frame'[p].trace, "lookup")
         /\ ~Has(frame'[p].trace, "save")
         /\ frame'[p].saved = <<>>]_vars

\* a call that ignores the profile of a service that is there, and buckets
\* a user whose stored decision is another variation
C4_Witness ==
  \E p \in Callers :
    /\ Returned(p)
    /\ frame[p].ignore_user_profile /\ user_profile_service
    /\ Has(frame[p].trace, "bucket")
    /\ frame[p].ret # None
    /\ HoldsDecisionFor(store[frame[p].user_id], frame[p].experiment)
    /\ store[frame[p].user_id].value.experiment_bucket_map[frame[p].experiment.id].variation_id
         # frame[p].ret.id

\* the call found no forced and no stored decision
NoForcedNoStored(f) ==
  /\ get_forced_variation(config, f.experiment, f.user_id).ret = None
  /\ ~LookedUpDecision(f)

\* C5: for a Running experiment with no forced and no stored decision for
\* the user, when the audience predicate is not satisfied get_variation
\* returns None, the bucketer is never called and nothing is saved.
C5_AudienceGate ==
  \A p \in Callers :
    (/\ Returned(p)
     /\ frame[p].experiment.status = "Running"
     /\ NoForcedNoStored(frame[p])
     /\ ~is_user_in_experiment(config, frame[p].experiment, frame[p].attributes)) =>
      /\ frame[p].ret = None
      /\ Has(frame[p].trace, "is_user_in_experiment")
      /\ ~Has(frame[p].trace, "bucket")
      /\ ~Has(frame[p].trace, "save")
      /\ frame[p].saved = <<>>

\* the audience gate rejects a user whom the bucketer would put into a
\* variation, in a call that would save
C5_Witness ==
  \E p \in Callers :
    /\ Returned(p)
    /\ frame[p].experiment.status = "Running"
    /\ NoForcedNoStored(frame[p])
    /\ ~is_user_in_experiment(config, frame[p].experiment, frame[p].attributes)
    /\ user_profile_service /\ ~frame[p].ignore_user_profile
    /\ Has(frame[p].trace, "lookup")
    /\ bucket(config, frame[p].experiment, frame[p].user_id) # None

\* the call persists its decisions
Persists(f) == user_profile_service /\ ~f.ignore_user_profile

\* the profile of a new user after the decision for the call's experiment
NewUserProfile(f, variation) ==
  UserProfile(f.user_id,
              [e \in {f.experiment.id} |-> Decision(variation.id)])

\* C6: when get_variation reaches bucketing and the bucketer yields a
\* variation V, the call returns V and, when persistence is enabled, saves
\* exactly one profile, whose experiment_bucket_map maps the experiment's id
\* to V's id; when the bucketer yields none, nothing is saved and None is
\* returned.
C6_BucketedDecisionIsSaved ==
  \A p \in Callers :
    (Returned(p) /\ Has(frame[p].trace, "bucket")) =>
      LET f == frame[p]
          V == bucket(config, f.experiment, f.user_id)
      IN  /\ f.ret = V
          /\ (V # None /\ Persists(f)) =>
               /\ Count(f.trace, "save") = 1
               /\ Len(f.saved) = 1
               /\ f.saved[1].user_id = f.user_id
               /\ f.experiment.id \in DOMAIN f.saved[1].experiment_bucket_map
               /\ f.saved[1].experiment_bucket_map[f.experiment.id] = Decision(V.id)
               /\ HasOutcome(f.trace, "save", "returned") =>
                    store[f.user_id] = PyDict(f.saved[1])
          /\ (V = None \/ ~Persists(f)) =>
               /\ ~Has(f.trace, "save")
               /\ f.saved = <<>>

\* the bucketed decision replaces a stale one in the profile of a user who
\* holds a decision for another experiment too
C6_Witness ==
  \E p \in Callers :
    /\ Returned(p)
    /\ Has(frame[p].trace, "bucket")
    /\ frame[p].ret # None
    /\ HasOutcome(frame[p].trace, "save", "returned")
    /\ is_user_profile_valid(frame[p].retrieved_profile)
    /\ DOMAIN frame[p].retrieved_profile.value.experiment_bucket_map
         = {"111127", "222227"}
    /\ frame[p].experiment.id = "111127"

\* the experiment_bucket_map the store holds for the user
HeldBucketMap(value) ==
  IF value.type = "dict" /\ "experiment_bucket_map" \in DOMAIN value.value
  THEN value.value.experiment_bucket_map
  ELSE EmptyDict

\* C7: the profile get_variation is about to save after bucketing into
\* experiment E holds every experiment_bucket_map entry the store holds for
\* the user for experiments other than E, unchanged, in every call that
\* saves, also after a lookup that failed or returned a malformed profile.
C7_SavedProfileKeepsStoredEntries ==
  \A p \in Callers :
    pc[p] = "save" =>
      LET f == frame[p]
          held == HeldBucketMap(store[f.user_id])
      IN  \A e \in DOMAIN held \ {f.experiment.id} :
            /\ e \in DOMAIN f.user_profile.experiment_bucket_map
            /\ f.user_profile.experiment_bucket_map[e] = held[e]

\* C8: when the lookup raises, the error is logged at ERROR, no stored
\* decision is consulted, the call goes on to the audience check and the
\* bucketing as for a user without a profile, and when the bucketer yields
\* a variation the call saves exactly once and returns that variation.
C8_LookupFailureIsNotFatal ==
  \A p \in Callers :
    (Returned(p) /\ HasOutcome(frame[p].trace, "lookup", "raised")) =>
      LET f == frame[p]
          V == bucket(config, f.experiment, f.user_id)
      IN  /\ FollowedBy(f.trace, "lookup", "raised",
                        Log(ERROR, "Unable to retrieve user profile."))
          /\ ~Has(f.trace, "get_stored_variation")
          /\ Has(f.trace, "is_user_in_experiment")
          /\ IF ~is_user_in_experiment(config, f.experiment, f.attributes)
             THEN f.ret = None /\ ~Has(f.trace, "bucket") /\ f.saved = <<>>
             ELSE /\ Has(f.trace, "bucket")
                  /\ f.ret = V
                  /\ Count(f.trace, "save") = (IF V # None THEN 1 ELSE 0)
                  /\ f.saved = (IF V # None THEN <<NewUserProfile(f, V)>> ELSE <<>>)

\* the lookup raises for a user whose stored decision is another variation
\* than the one the bucketer yields, and the call saves and returns the
\* bucketed one
C8_Witness ==
  \E p \in Callers :
    /\ Returned(p)
    /\ HasOutcome(frame[p].trace, "lookup", "raised")
    /\ frame[p].ret # None
    /\ Count(frame[p].trace, "save") = 1
    /\ frame[p].experiment.id = "111127"
    /\ frame[p].ret.id # "111129"
    /\ frame[p].saved[1].experiment_bucket_map["111127"] = Decision(frame[p].ret.id)

\* the lookup of the call returned a value that is not a mapping with a
\* user-id field and an experiment-bucket-map field
LookedUpWrongShape(f) ==
  /\ HasOutcome(f.trace, "lookup", "returned")
  /\ f.retrieved_profile # None
  /\ ~is_user_profile_valid(f.retrieved_profile)

\* C9: when the lookup returns a value of the wrong shape, get_variation
\* logs at WARNING, does not call get_stored_variation, and goes on to the
\* audience check and the bucketing as for a user without a profile; the
\* profile it saves holds the new decision only.
C9_MalformedProfileIsIgnored ==
  \A p \in Callers :
    (Returned(p) /\ LookedUpWrongShape(frame[p])) =>
      LET f == frame[p]
          V == bucket(config, f.experiment, f.user_id)
      IN  /\ FollowedBy(f.trace, "lookup", "returned",
                        Log(WARNING, "User profile has invalid format."))
          /\ ~Has(f.trace, "get_stored_variation")
          /\ Has(f.trace, "is_user_in_experiment")
          /\ IF ~is_user_in_experiment(config, f.experiment, f.attributes)
             THEN f.ret = None /\ ~Has(f.trace, "bucket") /\ f.saved = <<>>
             ELSE /\ Has(f.trace, "bucket")
                  /\ f.ret = V
                  /\ f.saved = (IF V # None THEN <<NewUserProfile(f, V)>> ELSE <<>>)

\* the lookup returns a mapping without a user-id field that holds a
\* decision for the experiment and one for another experiment; the call
\* buckets the user into another variation and saves that decision alone
C9_Witness ==
  \E p \in Callers :
    /\ Returned(p)
    /\ LookedUpWrongShape(frame[p])
    /\ frame[p].retrieved_profile.type = "dict"
    /\ DOMAIN HeldBucketMap(frame[p].retrieved_profile) = {"111127", "222227"}
    /\ frame[p].experiment.id = "111127"
    /\ frame[p].ret # None
    /\ HeldBucketMap(frame[p].retrieved_profile)["111127"] # Decision(frame[p].ret.id)
    /\ Len(frame[p].saved) = 1
    /\ DOMAIN frame[p].saved[1].experiment_bucket_map = {"111127"}

\* C10: when save raises after the bucketer yielded a variation, the
\* failure is logged at ERROR and get_variation returns the bucketed
\* variation, the same variation it returns when save succeeds.
C10_SaveFailureIsNotFatal ==
  \A p \in Callers :
    (Returned(p) /\ Has(frame[p].trace, "save")) =>
      LET f == frame[p]
          V == bucket(config, f.experiment, f.user_id)
      IN  /\ V # None
          /\ f.ret = V
          /\ FollowedBy(f.trace, "save", "raised",
                        Log(ERROR, "Unable to save user profile."))
          /\ HasOutcome(f.trace, "save", "raised") =>
               /\ f.trace[Len(f.trace)] = Log(ERROR, "Unable to save user profile.")
               /\ Count(f.trace, "save") = 1

\* save raises and the call returns the variation the bucketer yielded
C10_Witness ==
  \E p \in Callers :
    /\ Returned(p)
    /\ HasOutcome(frame[p].trace, "save", "raised")
    /\ frame[p].ret # None
    /\ frame[p].ret = bucket(config, frame[p].experiment, frame[p].user_id)

\* the user of the call is forced into a variation the experiment lacks
ForcedInMissingVariation(f) ==
  /\ f.user_id \in DOMAIN f.experiment.forcedVariations
  /\ f.experiment.forcedVariations[f.user_id]
       \notin DOMAIN config.variation_key_map[f.experiment.key]

\* the call of frame f made again for the same experiment without forced
\* variations, with the same outcomes of lookup and save
WithoutForcedEntry(f) ==
  get_variation(
    config, user_profile_service,
    [IdleFrame EXCEPT
       !.experiment = [f.experiment EXCEPT !.forcedVariations = EmptyDict],
       !.user_id = f.user_id,
       !.attributes = f.attributes,
       !.ignore_user_profile = f.ignore_user_profile],
    f.retrieved_profile,
    HasOutcome(f.trace, "lookup", "raised"),
    HasOutcome(f.trace, "save", "raised")).frame

\* the trace without the report of the unknown variation
WithoutVariationError(trace) ==
  SelectSeq(trace,
            LAMBDA e : e \notin {Log(ERROR, "Variation key is not in datafile."),
                                 HandleError("InvalidVariationException")})

\* C11: when the user id is a key of the forced-variation map but the named
\* variation key does not resolve in the experiment, get_forced_variation
\* returns None and get_variation goes on with the stored decision, the
\* audience gate and the bucketing: it returns, saves and calls what the
\* same call does for an experiment without forced variations.
C11_DanglingForcedEntryFallsThrough ==
  \A p \in Callers :
    (/\ Returned(p)
     /\ frame[p].experiment.status = "Running"
     /\ ForcedInMissingVariation(frame[p])) =>
      /\ get_forced_variation(config, frame[p].experiment, frame[p].user_id).ret = None
      /\ frame[p].ret = WithoutForcedEntry(frame[p]).ret
      /\ frame[p].saved = WithoutForcedEntry(frame[p]).saved
      /\ WithoutVariationError(frame[p].trace)
           = WithoutVariationError(WithoutForcedEntry(frame[p]).trace)
      /\ Has(frame[p].trace, "is_user_in_experiment") \/ LookedUpDecision(frame[p])

\* a user with a dangling forced entry is bucketed and the decision saved
C11_Witness ==
  \E p \in Callers :
    /\ Returned(p)
    /\ ForcedInMissingVariation(frame[p])
    /\ Has(frame[p].trace, "lookup")
    /\ Has(frame[p].trace, "bucket")
    /\ frame[p].ret # None
    /\ Len(frame[p].saved) = 1

\* C12: round trip: for every experiment E and variation V that
\* get_variation assigned by bucketing and passed to save,
\* get_stored_variation(E, profile) returns V for the profile built from
\* what was saved, and for the profile the store holds after a save that
\* returned.
C12_SavedDecisionRoundTrip ==
  \A p \in Callers :
    (Returned(p) /\ Len(frame[p].saved) = 1) =>
      LET f == frame[p]
          saved == PyDict(f.saved[1])
      IN  /\ f.ret # None
          /\ is_user_profile_valid(saved)
          /\ get_stored_variation(config, f.experiment,
                                  profile_from_retrieved(saved.value)).ret = f.ret
          /\ HasOutcome(f.trace, "save", "returned") =>
               /\ is_user_profile_valid(store[f.user_id])
               /\ get_stored_variation(
                    config, f.experiment,
                    profile_from_retrieved(store[f.user_id].value)).ret = f.ret

\* a bucketed decision is saved over a stale one and reads back
C12_Witness ==
  \E p \in Callers :
    /\ Returned(p)
    /\ Len(frame[p].saved) = 1
    /\ HasOutcome(frame[p].trace, "save", "returned")
    /\ HoldsDecisionFor(store[frame[p].user_id], frame[p].experiment)
    /\ is_user_profile_valid(frame[p].retrieved_profile)
    /\ get_variation_for_experiment(frame[p].retrieved_profile.value,
                                    frame[p].experiment.id) = "999999"
    /\ get_variation_for_experiment(store[frame[p].user_id].value,
                                    frame[p].experiment.id) = frame[p].ret.id

\* C13: stickiness over call sequences: once a call has bucketed user U
\* into variation V of experiment E and saved it, then as long as lookups
\* and saves succeed, E stays Running, U is not forced in E and V exists in
\* E, every call for (E, U) that uses the profile returns V, whatever the
\* audience and the traffic allocation of E have become.
C13_SavedDecisionSticks ==
  \A p \in Callers :
    (Returned(p) /\ Persists(frame[p])) =>
      \A a \in assigned :
        (a.user_id = frame[p].user_id /\ a.experiment_id = frame[p].experiment.id) =>
          /\ frame[p].ret # None
          /\ frame[p].ret.id = a.variation_id

\* a later call returns the saved variation to a user whom the audience
\* rejects now and whom the changed allocation puts into another variation
C13_Witness ==
  \E p \in Callers :
    /\ Returned(p)
    /\ Persists(frame[p])
    /\ frame[p].saved = <<>>
    /\ \E a \in assigned :
         /\ a.user_id = frame[p].user_id
         /\ a.experiment_id = frame[p].experiment.id
         /\ frame[p].ret # None
         /\ frame[p].ret.id = a.variation_id
    /\ ~is_user_in_experiment(config, frame[p].experiment, frame[p].attributes)
    /\ bucket(config, frame[p].experiment, frame[p].user_id) # None
    /\ bucket(config, frame[p].experiment, frame[p].user_id) # frame[p].ret
    /\ DOMAIN store[frame[p].user_id].value.experiment_bucket_map
         = {"111127", "222227"}

-----------------------------------------------------------------------------
(* properties of layers, features and groups *)

\* caller p has returned from a call of op
ReturnedFrom(p, op) == pc[p] = "done" /\ frame[p].op = op

\* the get_variation calls made for the experiment strategy of a feature
ExperimentCalls(f) == SelectSeq(f.calls, LAMBDA call : call.via = "experiment")

\* the get_variation calls made for the rules of a rollout
LayerCalls(f) == SelectSeq(f.calls, LAMBDA call : call.via = "layer")

\* what the decision pipeline yields when the user profile is ignored
DecisionIgnoringProfile(experiment, user_id, attributes) ==
  IF experiment.status # "Running" THEN None
  ELSE IF /\ user_id \in DOMAIN experiment.forcedVariations
          /\ experiment.forcedVariations[user_id]
               \in DOMAIN config.variation_key_map[experiment.key]
       THEN config.variation_key_map[experiment.key][experiment.forcedVariations[user_id]]
       ELSE IF ~is_user_in_experiment(config, experiment, attributes) THEN None
            ELSE bucket(config, experiment, user_id)

\* C14: get_variation_for_layer evaluates the layer's experiments in
\* declared order, with the arguments of the call, and returns the variation
\* of the first one that yields a variation; every experiment before it was
\* evaluated and yielded None and none after it is evaluated. When all yield
\* None, or the layer is absent or empty, the result is None.
C14_LayerInDeclaredOrder ==
  \A p \in Callers :
    ReturnedFrom(p, "get_variation_for_layer") =>
      LET f == frame[p]
          experiments == IF f.subject = None THEN <<>> ELSE f.subject.experiments
          n == Len(f.calls)
      IN  /\ f.raised = NoneStr
          /\ n <= Len(experiments)
          /\ \A i \in 1..n :
               /\ f.calls[i].frame.experiment = config.experiment_key_map[experiments[i].key]
               /\ f.calls[i].frame.user_id = f.user_id
               /\ f.calls[i].frame.attributes = f.attributes
               /\ f.calls[i].frame.ignore_user_profile = f.ignore_user_profile
               /\ f.ignore_user_profile =>
                    f.calls[i].frame.ret =
                      DecisionIgnoringProfile(f.calls[i].frame.experiment,
                                              f.user_id, f.attributes)
               /\ i < n => f.calls[i].frame.ret = None
          /\ IF n > 0 /\ f.calls[n].frame.ret # None
             THEN f.ret = f.calls[n].frame.ret
             ELSE f.ret = None /\ n = Len(experiments)

\* the user qualifies for the second of three rules: the first was
\* evaluated and yielded None, the third is not evaluated
C14_Witness ==
  \E p \in Callers :
    /\ ReturnedFrom(p, "get_variation_for_layer")
    /\ frame[p].subject # None
    /\ Len(frame[p].subject.experiments) = 3
    /\ Len(frame[p].calls) = 2
    /\ frame[p].calls[1].frame.ret = None
    /\ frame[p].ret # None
    /\ frame[p].ret.id = "211139"
    /\ DecisionIgnoringProfile(config.experiment_key_map["211147"],
                               frame[p].user_id, frame[p].attributes) # None

\* C15: during a call of get_variation_for_layer, also one that does not
\* pass ignore_user_profile, no lookup and no save is performed on the
\* store.
C15_LayerTouchesNoStore ==
  \A p \in Callers :
    ReturnedFrom(p, "get_variation_for_layer") =>
      \A i \in DOMAIN frame[p].calls :
        /\ ~Has(frame[p].calls[i].frame.trace, "lookup")
        /\ ~Has(frame[p].calls[i].frame.trace, "save")

\* the experiment of the feature's group that the group's traffic
\* allocation selects for the user
SelectedInGroup(feature, user_id) ==
  LET group == config.group_id_map[feature.groupId]
      experiment_id == find_bucket(user_id, group.id, group.trafficAllocation)
  IN  IF Truthy(experiment_id)
      THEN Get(config.experiment_id_map, experiment_id)
      ELSE None

\* C16: for a feature with a group id, get_variation_for_feature runs the
\* decision pipeline on at most one experiment outside the rollout: the one
\* the group selects for the user, and only if its id is among the
\* feature's experiment ids. Otherwise get_variation is called for no group
\* experiment, and without a layer id the result is None.
C16_GroupFeatureUsesSelectedExperiment ==
  \A p \in Callers :
    (ReturnedFrom(p, "get_variation_for_feature") /\ Truthy(frame[p].subject.groupId)) =>
      LET f == frame[p]
          selected == SelectedInGroup(f.subject, f.user_id)
          calls == ExperimentCalls(f)
      IN  /\ Len(calls) <= 1
          /\ Len(calls) = 1 <=>
               (selected # None /\ selected.id \in Range(f.subject.experimentIds))
          /\ Len(calls) = 1 =>
               /\ calls[1].frame.experiment = selected
               /\ calls[1].frame.user_id = f.user_id
               /\ ~calls[1].frame.ignore_user_profile
          /\ (Len(calls) = 0 /\ ~Truthy(f.subject.layerId)) =>
               f.ret = None /\ f.calls = <<>>

\* the group puts the user into a running experiment that takes all its
\* traffic but is not an experiment of the feature: the result is None
C16_Witness ==
  \E p \in Callers :
    /\ ReturnedFrom(p, "get_variation_for_feature")
    /\ Truthy(frame[p].subject.groupId)
    /\ ~Truthy(frame[p].subject.layerId)
    /\ SelectedInGroup(frame[p].subject, frame[p].user_id) # None
    /\ SelectedInGroup(frame[p].subject, frame[p].user_id).id
         \notin Range(frame[p].subject.experimentIds)
    /\ bucket(config, SelectedInGroup(frame[p].subject, frame[p].user_id),
              frame[p].user_id) # None
    /\ frame[p].ret = None
    /\ frame[p].calls = <<>>

\* C17: for a feature without a group id that lists experiment ids,
\* get_variation_for_feature runs the experiment pipeline, with the user
\* profile in use, on the first listed experiment only; no other listed
\* experiment is evaluated, whatever the first one returns.
C17_FeatureUsesFirstExperimentOnly ==
  \A p \in Callers :
    (/\ ReturnedFrom(p, "get_variation_for_feature")
     /\ ~Truthy(frame[p].subject.groupId)
     /\ Len(frame[p].subject.experimentIds) > 0) =>
      LET f == frame[p]
          calls == ExperimentCalls(f)
      IN  /\ Len(calls) = 1
          /\ f.calls[1] = calls[1]
          /\ calls[1].frame.experiment
               = config.experiment_id_map[f.subject.experimentIds[1]]
          /\ calls[1].frame.user_id = f.user_id
          /\ calls[1].frame.attributes = f.attributes
          /\ ~calls[1].frame.ignore_user_profile
          /\ \A i \in DOMAIN f.calls :
               i > 1 => f.calls[i].frame.experiment.id \notin Range(f.subject.experimentIds)

\* the first listed experiment rejects the user, the second one would take
\* the user, and the feature has no rollout: the result is None
C17_Witness ==
  \E p \in Callers :
    /\ ReturnedFrom(p, "get_variation_for_feature")
    /\ ~Truthy(frame[p].subject.groupId)
    /\ Len(frame[p].subject.experimentIds) = 2
    /\ ~Truthy(frame[p].subject.layerId)
    /\ Len(frame[p].calls) = 1
    /\ Has(frame[p].calls[1].frame.trace, "lookup")
    /\ frame[p].calls[1].frame.ret = None
    /\ DecisionIgnoringProfile(config.experiment_id_map[frame[p].subject.experimentIds[2]],
                               frame[p].user_id, frame[p].attributes) # None
    /\ frame[p].ret = None

\* the variation the experiment strategy of the feature call produced
ExperimentVariation(f) ==
  IF Len(ExperimentCalls(f)) > 0 THEN ExperimentCalls(f)[1].frame.ret ELSE None

\* the variation the rollout of the feature call produced
LayerVariation(f) ==
  IF Len(LayerCalls(f)) > 0 THEN LayerCalls(f)[Len(LayerCalls(f))].frame.ret ELSE None

\* C18: in get_variation_for_feature the rollout is evaluated if and only
\* if the experiment strategy produced no variation and the feature has a
\* layer id; it is evaluated after the experiment strategy, with the user
\* profile ignored, and its result is the result of the call. When the
\* experiment strategy produces a variation the rollout is not evaluated,
\* and when no path yields a variation the result is None.
C18_RolloutIsTheFallback ==
  \A p \in Callers :
    ReturnedFrom(p, "get_variation_for_feature") =>
      LET f == frame[p]
          evaluated == Has(f.trace, "get_variation_for_layer")
      IN  /\ evaluated <=> (ExperimentVariation(f) = None /\ Truthy(f.subject.layerId))
          /\ f.calls = ExperimentCalls(f) \o LayerCalls(f)
          /\ ~evaluated => (LayerCalls(f) = <<>> /\ f.ret = ExperimentVariation(f))
          /\ evaluated =>
               /\ f.ret = LayerVariation(f)
               /\ \A i \in DOMAIN LayerCalls(f) :
                    /\ LayerCalls(f)[i].frame.ignore_user_profile
                    /\ ~Has(LayerCalls(f)[i].frame.trace, "lookup")
                    /\ ~Has(LayerCalls(f)[i].frame.trace, "save")
                    /\ LayerCalls(f)[i].frame.ret =
                         DecisionIgnoringProfile(LayerCalls(f)[i].frame.experiment,
                                                 f.user_id, f.attributes)
          /\ (ExperimentVariation(f) = None /\ LayerVariation(f) = None) => f.ret = None

\* the feature's experiment was evaluated with the profile and rejected the
\* user, and the rollout's second rule yields the result
C18_Witness ==
  \E p \in Callers :
    /\ ReturnedFrom(p, "get_variation_for_feature")
    /\ Len(ExperimentCalls(frame[p])) = 1
    /\ Has(ExperimentCalls(frame[p])[1].frame.trace, "lookup")
    /\ ExperimentVariation(frame[p]) = None
    /\ Len(LayerCalls(frame[p])) = 2
    /\ frame[p].ret # None
    /\ frame[p].ret = LayerVariation(frame[p])

\* C19: get_experiment_in_group(group, user) returns the experiment whose
\* id find_bucket(user, group.id, group.trafficAllocation) yields when that
\* id is in the index; it returns None, and logs that the user is in no
\* experiment of the group, when find_bucket yields none or the id is in no
\* map.
C19_ExperimentInGroup ==
  \A p \in Callers :
    ReturnedFrom(p, "get_experiment_in_group") =>
      LET f == frame[p]
          experiment_id ==
            find_bucket(f.user_id, f.subject.id, f.subject.trafficAllocation)
          not_in_group == Log(INFO, "User is not in any experiments of group.")
      IN  IF experiment_id # NoneStr /\ experiment_id \in DOMAIN config.experiment_id_map
          THEN /\ f.ret = config.experiment_id_map[experiment_id]
               /\ f.trace = <<Log(INFO, "User is in experiment of group.")>>
          ELSE /\ f.ret = None
               /\ Len(f.trace) > 0
               /\ f.trace[Len(f.trace)] = not_in_group

\* the group's traffic allocation names an experiment that is in no map
C19_Witness ==
  \E p \in Callers :
    /\ ReturnedFrom(p, "get_experiment_in_group")
    /\ find_bucket(frame[p].user_id, frame[p].subject.id,
                   frame[p].subject.trafficAllocation) = "99999"
    /\ frame[p].ret = None
    /\ Has(frame[p].trace, "handle_error")

\* the indexed experiments that the mutex group lists
ExperimentsOfGroup(group) ==
  {experiment \in Range(config.experiment_key_map) :
     \E i \in DOMAIN group.experiments : group.experiments[i].id = experiment.id}

\* the mutex groups of the index
MutexGroups == {group \in Range(config.group_id_map) : group.policy = "random"}

\* C20: mutual exclusion in bucketing: for every user and every mutex
\* group, bucket(experiment, user) yields a variation for at most one
\* experiment of the group, and only for the experiment that find_bucket
\* over the group's traffic allocation selects for the user, whatever the
\* experiment's own traffic allocation is.
C20_BucketIsMutuallyExclusive ==
  \A p \in Callers :
    ReturnedFrom(p, "bucket") =>
      \A group \in MutexGroups :
        /\ frame[p].subject \in ExperimentsOfGroup(group) =>
             (frame[p].ret # None =>
                find_bucket(frame[p].user_id, group.id, group.trafficAllocation)
                  = frame[p].subject.id)
        /\ Cardinality({experiment \in ExperimentsOfGroup(group) :
                          bucket(config, experiment, frame[p].user_id) # None}) <= 1

\* an experiment of the group whose own allocation takes the user yields
\* None because the group selects its other experiment, which yields a
\* variation
C20_Witness ==
  \E p \in Callers :
    /\ ReturnedFrom(p, "bucket")
    /\ frame[p].ret = None
    /\ \E group \in MutexGroups :
         /\ frame[p].subject \in ExperimentsOfGroup(group)
         /\ find_bucket(frame[p].user_id, frame[p].subject.id,
                        frame[p].subject.trafficAllocation) # NoneStr
         /\ \E other \in ExperimentsOfGroup(group) :
              bucket(config, other, frame[p].user_id) # None

-----------------------------------------------------------------------------
(* properties of the bucketer *)

\* caller p has returned from the scan of a table, in find_bucket or alone
Scanned(p) ==
  pc[p] = "done" /\ frame[p].op \in {"find_bucket", "first_allocation"}

\* the entries of the table whose end of range exceeds the value
Exceeding(traffic_allocations, bucket_value) ==
  {i \in DOMAIN traffic_allocations :
     traffic_allocations[i].endOfRange > bucket_value}

\* the table is sorted ascending by end of range
SortedByEndOfRange(traffic_allocations) ==
  \A i, j \in DOMAIN traffic_allocations :
    i < j => traffic_allocations[i].endOfRange <= traffic_allocations[j].endOfRange

\* the entries whose range, from the end of the entry before up to their
\* own end, holds the value
Holding(traffic_allocations, bucket_value) ==
  {i \in DOMAIN traffic_allocations :
     /\ bucket_value < traffic_allocations[i].endOfRange
     /\ bucket_value >= (IF i = 1 THEN 0 ELSE traffic_allocations[i - 1].endOfRange)}

\* C21: find_bucket returns the entity id of the first entry, in table
\* order, whose end of range is strictly greater than the bucket value, and
\* none when no entry's end of range exceeds it, as for the empty table; in
\* a table sorted ascending by end of range at most one entry's range holds
\* a bucket value, and the result is that entry's entity id or none.
C21_FindBucketFirstExceeding ==
  \A p \in Callers :
    Scanned(p) =>
      LET f == frame[p]
          exceeding == Exceeding(f.traffic_allocations, f.bucket_value)
          holding == Holding(f.traffic_allocations, f.bucket_value)
      IN  /\ f.bucket_value \in 0..(MAX_TRAFFIC_VALUE - 1)
          /\ IF exceeding = {}
             THEN f.ret = NoneStr
             ELSE f.ret =
                    f.traffic_allocations[
                      CHOOSE i \in exceeding : \A j \in exceeding : i <= j].entityId
          /\ SortedByEndOfRange(f.traffic_allocations) =>
               /\ Cardinality(holding) <= 1
               /\ holding = {} => f.ret = NoneStr
               /\ \A i \in holding : f.ret = f.traffic_allocations[i].entityId

\* find_bucket of a hashed bucket value that equals the first entry's end
\* of range yields the second entry
C21_Witness ==
  \E p \in Callers :
    /\ pc[p] = "done"
    /\ frame[p].op = "find_bucket"
    /\ Len(frame[p].traffic_allocations) = 2
    /\ frame[p].bucket_value = frame[p].traffic_allocations[1].endOfRange
    /\ frame[p].ret = frame[p].traffic_allocations[2].entityId

-----------------------------------------------------------------------------
(* properties of the index *)

\* the getters that report to the error handler
ReportingGetters ==
  {"get_experiment_from_key", "get_experiment_from_id", "get_group",
   "get_audience", "get_variation_from_key", "get_variation_from_id",
   "get_event", "get_attribute"}

\* C23: on the index of a datafile of an unsupported version every getter
\* returns None: it does not raise and reports nothing to the error handler.
C23_UnparsedGettersFindNothing ==
  \A p \in Callers :
    (/\ pc[p] = "done"
     /\ frame[p].op \in Getters
     /\ ~was_parsing_successful(config)) =>
      /\ frame[p].raised = NoneStr
      /\ frame[p].ret = None
      /\ ~Has(frame[p].trace, "handle_error")

\* C24: a construction that completes yields an index for which
\* was_parsing_successful() is false exactly when the version is one of the
\* unsupported ones, and then no lookup map is built; for every other
\* version, unrecognized or missing, the index is the one built for the
\* supported version, with all lookup maps and parsing_succeeded true.
C24_ParsedUnlessUnsupported ==
  \A p \in Callers :
    /\ (ReturnedFrom(p, "ProjectConfig") /\ frame[p].raised = NoneStr) =>
         LET datafile == frame[p].a
             c == frame[p].ret
         IN  /\ ~was_parsing_successful(c) <=> datafile.version \in UNSUPPORTED_VERSIONS
             /\ ~was_parsing_successful(c) => DOMAIN c \cap LookupMaps = {}
             /\ was_parsing_successful(c) =>
                  /\ LookupMaps \subseteq DOMAIN c
                  /\ [c EXCEPT !.version = V2_CONFIG_VERSION]
                       = construct([datafile EXCEPT !.version = V2_CONFIG_VERSION]).ret
    /\ ReturnedFrom(p, "was_parsing_successful") =>
         (frame[p].ret = PyBool(FALSE) <=> get_version(config) \in UNSUPPORTED_VERSIONS)

\* a datafile without a version, with experiments, is parsed
C24_Witness ==
  \E p \in Callers :
    /\ ReturnedFrom(p, "ProjectConfig")
    /\ frame[p].raised = NoneStr
    /\ frame[p].a.version = NoneStr
    /\ was_parsing_successful(frame[p].ret)
    /\ "test_experiment" \in DOMAIN frame[p].ret.experiment_key_map
    /\ config = frame[p].ret

\* the entity the getter looks up is in the index
Found(c, name, a, b) ==
  CASE name = "get_experiment_from_key" -> a \in DOMAIN c.experiment_key_map
    [] name = "get_experiment_from_id" -> a \in DOMAIN c.experiment_id_map
    [] name = "get_group" -> a \in DOMAIN c.group_id_map
    [] name = "get_audience" -> a \in DOMAIN c.audience_id_map
    [] name = "get_variation_from_key" ->
         a \in DOMAIN c.variation_key_map /\ b \in DOMAIN c.variation_key_map[a]
    [] name = "get_variation_from_id" ->
         a \in DOMAIN c.variation_id_map /\ b \in DOMAIN c.variation_id_map[a]
    [] name = "get_event" -> a \in DOMAIN c.event_key_map
    [] name = "get_attribute" -> a \in DOMAIN c.attribute_key_map

\* the kind of error that matches the entity the lookup misses
MissingKind(c, name, a) ==
  CASE name \in {"get_experiment_from_key", "get_experiment_from_id"} ->
         "InvalidExperimentException"
    [] name = "get_group" -> "InvalidGroupException"
    [] name = "get_audience" -> "InvalidAudienceException"
    [] name \in {"get_variation_from_key", "get_variation_from_id"} ->
         IF a \in DOMAIN c.experiment_key_map
         THEN "InvalidVariationException"
         ELSE "InvalidExperimentException"
    [] name = "get_event" -> "InvalidEventException"
    [] name = "get_attribute" -> "InvalidAttributeException"

\* C25: on a parsed index a lookup that finds its entity returns it and
\* reports nothing; a lookup that does not logs at ERROR, reports exactly
\* one error, of the kind of the missing entity, to the error handler and
\* returns None.
C25_NotFoundReportsItsKind ==
  \A p \in Callers :
    (/\ pc[p] = "done"
     /\ frame[p].op \in ReportingGetters
     /\ was_parsing_successful(config)) =>
      LET f == frame[p]
      IN  /\ f.raised = NoneStr
          /\ IF Found(config, f.op, f.a, f.b)
             THEN f.ret # None /\ f.trace = <<>>
             ELSE /\ f.ret = None
                  /\ Len(f.trace) = 2
                  /\ f.trace[1].op = "log" /\ f.trace[1].level = ERROR
                  /\ f.trace[2] = HandleError(MissingKind(config, f.op, f.a))

\* C26: get_variable_value_for_variation returns None without raising when
\* an argument is absent, when the variation has no usage map and when the
\* usage map has no entry for the variable's id; otherwise the outcome is
\* that of casting the usage's raw value to the variable's type.
C26_VariableValueOrNone ==
  \A p \in Callers :
    ReturnedFrom(p, "get_variable_value_for_variation") =>
      LET f == frame[p]
          variable == f.a
          variation == f.b
          usages == config.variation_variable_usage_map
      IN  IF \/ variable = None
             \/ variation = None
             \/ variation.id \notin DOMAIN usages
             \/ variable.id \notin DOMAIN usages[variation.id]
          THEN f.ret = None /\ f.raised = NoneStr
          ELSE LET value == get_typecast_value(usages[variation.id][variable.id].value,
                                               variable.type)
               IN  f.ret = value.ret /\ f.raised = value.raised

\* the operations that read the index
IndexReaders ==
  Getters \cup
    {"was_parsing_successful", "get_variable_value_for_variation",
     "get_variable_for_feature"}

\* the decision operations
DecisionCalls ==
  {"get_variation", "get_forced_variation", "get_stored_variation",
   "get_variation_for_layer", "get_variation_for_feature",
   "get_experiment_in_group"}

\* C27: once constructed, the index is changed by no accessor and by no
\* decision operation: every step that is not a construction leaves the
\* lookup maps and their entities as they are. An accessor leaves the store
\* as it is too, so a decision call changes nothing but the store.
C27_IndexIsReadOnly ==
  [][\A p \in Callers :
       (pc[p] = "idle" /\ pc'[p] = "done") =>
         /\ frame'[p].op \in IndexReaders \cup DecisionCalls \cup {"ProjectConfig"}
         /\ frame'[p].op # "ProjectConfig" =>
              /\ config' = config
              /\ user_profile_service' = user_profile_service
         /\ frame'[p].op \in IndexReaders => store' = store]_vars

\* a feature decision has saved a decision to the store of a parsed index
C27_Witness ==
  \E p \in Callers :
    /\ ReturnedFrom(p, "get_variation_for_feature")
    /\ frame[p].ret # None
    /\ \E i \in DOMAIN frame[p].calls : Has(frame[p].calls[i].frame.trace, "save")
    /\ store[frame[p].user_id] # None
    /\ DOMAIN config.feature_key_map # {}

-----------------------------------------------------------------------------
(* properties of get_variation and the store *)

\* the variations of the experiment
VariationsOf(experiment) == Range(config.variation_key_map[experiment.key])

\* C28: whatever the store does within a call (lookup returns a profile, a
\* malformed value or None, or raises; save returns or raises), the call
\* goes on to its next step or returns, and what it returns is a variation
\* of the experiment or None; after a save, failed or not, it returns the
\* variation that was bucketed.
C28_StoreFailuresStayInside ==
  [][\A p \in Callers :
       /\ pc[p] = "lookup" =>
            /\ pc'[p] \in {"decide", "done"}
            /\ Count(frame'[p].trace, "lookup") = 1
       /\ pc[p] = "save" =>
            /\ pc'[p] = "done"
            /\ frame[p].variation # None
            /\ frame'[p].ret = frame[p].variation
       /\ pc'[p] \in {"idle", "lookup", "decide", "save", "done"}
       /\ pc'[p] = "done" =>
            frame'[p].ret \in VariationsOf(frame'[p].experiment) \cup {None}]_vars

\* lookup and save both raise in one call, and the call returns the
\* bucketed variation
C28_Witness ==
  \E p \in Callers :
    /\ Returned(p)
    /\ HasOutcome(frame[p].trace, "lookup", "raised")
    /\ HasOutcome(frame[p].trace, "save", "raised")
    /\ frame[p].ret \in VariationsOf(frame[p].experiment)

\* every call of op in the trace comes before every call of later
Precedes(trace, op, later) ==
  \A i, j \in DOMAIN trace :
    (trace[i].op = op /\ trace[j].op = later) => i < j

\* C30: at every point of a get_variation call the store's lookup has been
\* invoked at most once and save at most once, also when they raised; the
\* lookup comes before the audience check and the bucketing; and save has
\* been called only after the bucketer produced a variation, so never on a
\* call that ended at the status check, a forced or stored variation, or
\* the audience gate.
C30_StoreCalledAtMostOnce ==
  \A p \in Callers :
    LET f == frame[p]
    IN  /\ Count(f.trace, "lookup") <= 1
        /\ Count(f.trace, "save") <= 1
        /\ Precedes(f.trace, "lookup", "is_user_in_experiment")
        /\ Precedes(f.trace, "lookup", "bucket")
        /\ Precedes(f.trace, "lookup", "save")
        /\ Has(f.trace, "save") =>
             /\ Has(f.trace, "bucket")
             /\ Precedes(f.trace, "bucket", "save")
             /\ bucket(config, f.experiment, f.user_id) # None
             /\ f.trace[Len(f.trace)].op = "save"
                  \/ f.trace[Len(f.trace)] = Log(ERROR, "Unable to save user profile.")
        /\ (Returned(p) /\ ~Has(f.trace, "bucket")) => ~Has(f.trace, "save")
        /\ (Returned(p) /\ Has(f.trace, "bucket") /\ f.ret = None) => ~Has(f.trace, "save")

\* a lookup that raised is followed by the audience gate, which rejects
\* the user: one lookup, no bucketing, no save
C30_Witness ==
  \E p \in Callers :
    /\ Returned(p)
    /\ HasOutcome(frame[p].trace, "lookup", "raised")
    /\ Count(frame[p].trace, "lookup") = 1
    /\ Has(frame[p].trace, "is_user_in_experiment")
    /\ ~Has(frame[p].trace, "bucket")
    /\ ~Has(frame[p].trace, "save")
    /\ frame[p].ret = None

\* the save of caller p returns in this step
SaveReturns(p) ==
  /\ pc[p] = "save"
  /\ pc'[p] = "done"
  /\ HasOutcome(frame'[p].trace, "save", "returned")

\* C29: the lookup and the save of a call are separate steps, and steps of
\* another call for the same user may come between them; a save that
\* returns leaves in the store exactly the profile that was passed to it:
\* what the user's entry held before, a decision another call saved in the
\* meantime included, is replaced and not merged.
C29_LastSaveWins ==
  [][\A p \in Callers :
       SaveReturns(p) =>
         /\ store'[frame[p].user_id] = PyDict(frame[p].user_profile)
         /\ frame'[p].saved = <<frame[p].user_profile>>
         /\ \A u \in Users \ {frame[p].user_id} : store'[u] = store[u]]_vars

\* both callers looked up the same user before either saved; both saves
\* returned, for different experiments, and the store lacks the decision
\* the first caller saved
C29_Witness ==
  /\ pc["c1"] = "done" /\ pc["c2"] = "done"
  /\ frame["c1"].user_id = frame["c2"].user_id
  /\ frame["c1"].experiment.id = "111127"
  /\ frame["c2"].experiment.id = "222227"
  /\ HasOutcome(frame["c1"].trace, "lookup", "returned")
  /\ HasOutcome(frame["c2"].trace, "lookup", "returned")
  /\ HasOutcome(frame["c1"].trace, "save", "returned")
  /\ HasOutcome(frame["c2"].trace, "save", "returned")
  /\ store[frame["c1"].user_id] = PyDict(frame["c2"].saved[1])
  /\ "111127" \notin DOMAIN store[frame["c1"].user_id].value.experiment_bucket_map
  /\ Assignment(frame["c1"].user_id, frame["c1"].experiment, frame["c1"].ret)
       \in assigned

-----------------------------------------------------------------------------
(* properties of the constructed index *)

\* a construction by p has returned an index that holds its maps
Constructed(p) ==
  /\ pc[p] = "done"
  /\ frame[p].op = "ProjectConfig"
  /\ frame[p].raised = NoneStr
  /\ frame[p].ret.parsing_succeeded

\* the groups of the datafile that list an experiment of this key
GroupsListing(datafile, key) ==
  {i \in DOMAIN datafile.groups :
     \E j \in DOMAIN datafile.groups[i].experiments :
       datafile.groups[i].experiments[j].key = key}

\* the experiment carries the id and the policy of the group
Carries(experiment, group) ==
  /\ experiment.groupId = group.id
  /\ experiment.groupPolicy = group.policy

\* C31: in a constructed index an experiment carries the id and the policy
\* of a group exactly when that group of the datafile lists it; every
\* experiment a group lists is in the map by key and in the map by id with
\* that annotation; an experiment no group lists has no group id; and no
\* experiment carries the id of more than one group.
C31_GroupAnnotation ==
  \A p \in Callers :
    Constructed(p) =>
      LET datafile == frame[p].a
          c == frame[p].ret
      IN  /\ \A k \in DOMAIN c.experiment_key_map, i \in DOMAIN datafile.groups :
               Carries(c.experiment_key_map[k], datafile.groups[i])
                 <=> i \in GroupsListing(datafile, k)
          /\ \A i \in DOMAIN datafile.groups :
               \A j \in DOMAIN datafile.groups[i].experiments :
                 LET e == datafile.groups[i].experiments[j]
                 IN  /\ e.key \in DOMAIN c.experiment_key_map
                     /\ Carries(c.experiment_key_map[e.key], datafile.groups[i])
                     /\ e.id \in DOMAIN c.experiment_id_map
                     /\ c.experiment_id_map[e.id].key = e.key
                     /\ Carries(c.experiment_id_map[e.id], datafile.groups[i])
          /\ \A k \in DOMAIN c.experiment_key_map :
               GroupsListing(datafile, k) = {}
                 => /\ c.experiment_key_map[k].groupId = NoneStr
                    /\ c.experiment_key_map[k].groupPolicy = NoneStr
          /\ \A k \in DOMAIN c.experiment_key_map :
               Cardinality({i \in DOMAIN datafile.groups :
                              c.experiment_key_map[k].groupId = datafile.groups[i].id})
                 <= 1

\* an index was built from a datafile of two groups of different policies
\* and of experiments that no group lists
C31_Witness ==
  \E p \in Callers :
    /\ Constructed(p)
    /\ Len(frame[p].a.groups) = 2
    /\ frame[p].ret.experiment_key_map["group_exp_1"].groupPolicy = "random"
    /\ frame[p].ret.experiment_id_map["32224"].groupId = "19229"
    /\ frame[p].ret.experiment_id_map["32224"].groupPolicy = "overlapping"
    /\ frame[p].ret.experiment_key_map["test_experiment"].groupId = NoneStr

\* the positions of the feature's experiment ids whose experiment a group
\* of the datafile lists
GroupedPositions(datafile, feature) ==
  {j \in DOMAIN feature.experimentIds :
     \E i \in DOMAIN datafile.groups :
       \E n \in DOMAIN datafile.groups[i].experiments :
         datafile.groups[i].experiments[n].id = feature.experimentIds[j]}

\* the id of the group of the datafile that lists the experiment of this id
GroupIdOf(datafile, experiment_id) ==
  (CHOOSE group \in Range(datafile.groups) :
     \E n \in DOMAIN group.experiments : group.experiments[n].id = experiment_id).id

\* the feature has an experiment that is in a group of the index
HasGroupedExperiment(c, feature) ==
  \E j \in DOMAIN feature.experimentIds :
    c.experiment_id_map[feature.experimentIds[j]].groupId # NoneStr

\* C32: in a constructed index a feature's group id is the group id of the
\* first of its experiment ids, in their order, whose experiment is in a
\* group, and a feature none of whose experiments is in a group has no
\* group id; get_variation_for_feature asks the group for its experiment
\* exactly for the features that have an experiment in a group, and goes
\* by the feature's first experiment for the others.
C32_FeatureGroupId ==
  \A p \in Callers :
    /\ Constructed(p) =>
         \A k \in DOMAIN frame[p].ret.feature_key_map :
           LET feature == frame[p].ret.feature_key_map[k]
               grouped == GroupedPositions(frame[p].a, feature)
           IN  IF grouped = {} THEN feature.groupId = NoneStr
               ELSE feature.groupId =
                      GroupIdOf(frame[p].a,
                                feature.experimentIds[
                                  CHOOSE j \in grouped : \A n \in grouped : j <= n])
    /\ ReturnedFrom(p, "get_variation_for_feature") =>
         /\ Has(frame[p].trace, "get_experiment_in_group")
              <=> HasGroupedExperiment(config, frame[p].subject)
         /\ HasGroupedExperiment(config, frame[p].subject)
              <=> frame[p].subject.groupId # NoneStr

\* indexed: a feature whose second experiment is the first one in a group,
\* and a feature whose two experiments are in two groups; decided: a
\* feature with an experiment in a group, by the group strategy
C32_Witness ==
  \E p \in Callers :
    /\ ReturnedFrom(p, "get_variation_for_feature")
    /\ frame[p].subject.key = "mixed_feature"
    /\ frame[p].subject.groupId = "19228"
    /\ config.feature_key_map["two_group_feature"].groupId = "19229"
    /\ config.feature_key_map["experiment_feature"].groupId = NoneStr
    /\ Has(frame[p].trace, "get_experiment_in_group")

-----------------------------------------------------------------------------
(* properties of get_variation for the experiments of a mutex group *)

\* p and q have returned from calls for the same user and for two Running
\* experiments of the same mutex group
SameGroupCalls(p, q) ==
  /\ Returned(p) /\ Returned(q)
  /\ frame[p].user_id = frame[q].user_id
  /\ frame[p].experiment.id # frame[q].experiment.id
  /\ frame[p].experiment.groupId # NoneStr
  /\ frame[p].experiment.groupId = frame[q].experiment.groupId
  /\ frame[p].experiment.groupPolicy = "random"
  /\ is_experiment_running(frame[p].experiment)
  /\ is_experiment_running(frame[q].experiment)

\* the call returned a variation that the bucketer chose
ReturnedBucketed(f) == f.ret # None /\ Has(f.trace, "bucket")

\* C33 as stated: get_variation returns a variation for at most one of the
\* Running experiments of a mutex group, for every user, whether the
\* variation was forced, stored or bucketed.
C33_AtMostOneDecisionInGroup ==
  \A p, q \in Callers :
    SameGroupCalls(p, q) => ~(frame[p].ret # None /\ frame[q].ret # None)

\* C33, amended: get_variation returns a variation chosen by the bucketer
\* for at most one of the Running experiments of a mutex group, for every
\* user and one snapshot; when two calls both return a variation, at least
\* one of them is a forced variation or a stored decision, which are
\* returned before the group's traffic allocation is consulted.
C33_AtMostOneBucketedInGroup ==
  \A p, q \in Callers :
    SameGroupCalls(p, q) => ~(ReturnedBucketed(frame[p]) /\ ReturnedBucketed(frame[q]))

\* one call was bucketed into its experiment of the group and the call for
\* the other experiment reached the bucketer and returned nothing
C33_Witness ==
  \E p, q \in Callers :
    /\ SameGroupCalls(p, q)
    /\ ReturnedBucketed(frame[p])
    /\ Has(frame[q].trace, "bucket")
    /\ frame[q].ret = None

-----------------------------------------------------------------------------
(* properties of the variation get_variation returns *)

\* the call's lookup returned a well-formed profile whose entry for the
\* experiment holds an id that is no variation of the experiment
LookedUpForeignId(f) ==
  /\ HasOutcome(f.trace, "lookup", "returned")
  /\ is_user_profile_valid(f.retrieved_profile)
  /\ f.experiment.id \in DOMAIN f.retrieved_profile.value.experiment_bucket_map
  /\ f.retrieved_profile.value.experiment_bucket_map[f.experiment.id].variation_id
       \notin DOMAIN config.variation_id_map[f.experiment.key]

\* the stored id of the call's experiment, once looked up
LookedUpId(f) ==
  f.retrieved_profile.value.experiment_bucket_map[f.experiment.id].variation_id

\* C34: a variation that get_variation returns for an experiment is in the
\* experiment's map of variations by key and in its map by id, under its
\* own key and id, whether it was forced, stored or bucketed; a stored id
\* that is a variation of another experiment is never what is returned.
C34_ResultIsOfTheExperiment ==
  \A p \in Callers :
    (Returned(p) /\ frame[p].ret # None) =>
      LET by_key == config.variation_key_map[frame[p].experiment.key]
          by_id == config.variation_id_map[frame[p].experiment.key]
          variation == frame[p].ret
      IN  /\ variation.key \in DOMAIN by_key /\ by_key[variation.key] = variation
          /\ variation.id \in DOMAIN by_id /\ by_id[variation.id] = variation
          /\ \E i \in DOMAIN frame[p].experiment.variations :
               frame[p].experiment.variations[i].id = variation.id
          /\ LookedUpForeignId(frame[p]) => variation.id # LookedUpId(frame[p])

\* the store held for test_experiment the id of second_experiment's
\* variation; the call looked it up and returned a bucketed variation of
\* test_experiment
C34_Witness ==
  \E p \in Callers :
    /\ Returned(p)
    /\ LookedUpForeignId(frame[p])
    /\ LookedUpId(frame[p]) = "222228"
    /\ frame[p].experiment.key = "test_experiment"
    /\ Has(frame[p].trace, "bucket")
    /\ frame[p].ret # None

\* C35: when the profile that was looked up maps the experiment to a
\* variation id the experiment does not have, get_variation does not return
\* a variation of that id: it goes on to the audience gate and, for a user
\* the audience admits, to the bucketer; when the bucketer yields V, the
\* profile that is saved holds V's id for this experiment and every other
\* entry of the looked-up profile as it was.
C35_StaleDecisionIsReplaced ==
  \A p \in Callers :
    (Returned(p) /\ LookedUpForeignId(frame[p])) =>
      LET f == frame[p]
          looked_up == f.retrieved_profile.value.experiment_bucket_map
          V == bucket(config, f.experiment, f.user_id)
      IN  /\ f.ret # None => f.ret.id # LookedUpId(f)
          /\ Has(f.trace, "is_user_in_experiment")
          /\ ~audience_rejects(config, f.experiment, f.attributes) =>
               /\ Has(f.trace, "bucket")
               /\ f.ret = V
          /\ audience_rejects(config, f.experiment, f.attributes) =>
               /\ ~Has(f.trace, "bucket")
               /\ f.ret = None
          /\ (Has(f.trace, "bucket") /\ V # None) =>
               /\ Len(f.saved) = 1
               /\ f.saved[1].user_id = f.user_id
               /\ DOMAIN f.saved[1].experiment_bucket_map = DOMAIN looked_up
               /\ f.saved[1].experiment_bucket_map[f.experiment.id] = Decision(V.id)
               /\ \A e \in DOMAIN looked_up \ {f.experiment.id} :
                    f.saved[1].experiment_bucket_map[e] = looked_up[e]
               /\ HasOutcome(f.trace, "save", "returned") =>
                    store[f.user_id] = PyDict(f.saved[1])

\* the store held an id of a deleted variation for test_experiment and a
\* decision for second_experiment; the call bucketed the user and saved
\* both entries
C35_Witness ==
  \E p \in Callers :
    /\ Returned(p)
    /\ LookedUpForeignId(frame[p])
    /\ LookedUpId(frame[p]) = "999999"
    /\ frame[p].ret # None
    /\ HasOutcome(frame[p].trace, "save", "returned")
    /\ "222227" \in DOMAIN store[frame[p].user_id].value.experiment_bucket_map
    /\ store[frame[p].user_id].value.experiment_bucket_map["111127"]
         = Decision(frame[p].ret.id)

-----------------------------------------------------------------------------
(* properties of two concurrent calls for one experiment *)

\* no lookup and no save of the call raised
StoreDidNotFail(f) ==
  /\ ~HasOutcome(f.trace, "lookup", "raised")
  /\ ~HasOutcome(f.trace, "save", "raised")

\* p and q have returned from concurrent calls for the same user, the same
\* Running experiment and the same attributes, and the store did not fail
SameCalls(p, q) ==
  /\ p # q
  /\ Returned(p) /\ Returned(q)
  /\ frame[p].user_id = frame[q].user_id
  /\ frame[p].experiment = frame[q].experiment
  /\ is_experiment_running(frame[p].experiment)
  /\ frame[p].attributes = frame[q].attributes
  /\ StoreDidNotFail(frame[p]) /\ StoreDidNotFail(frame[q])

\* both calls returned the same, and what a call saved is what the store
\* holds for the experiment and what was returned
SameOutcome(p, q) ==
  /\ frame[p].ret = frame[q].ret
  /\ (Has(frame[p].trace, "save") \/ Has(frame[q].trace, "save")) =>
       /\ frame[p].ret # None
       /\ HoldsDecisionFor(store[frame[p].user_id], frame[p].experiment)
       /\ store[frame[p].user_id].value.experiment_bucket_map[frame[p].experiment.id]
            = Decision(frame[p].ret.id)

\* C36 as stated: two concurrent calls of get_variation for the same user,
\* the same Running experiment, the same attributes and the same snapshot,
\* whose store operations do not fail, return the same result however
\* their steps interleave, and if either saved, the store holds the id of
\* the returned variation for the experiment.
C36_ConcurrentCallsAgree ==
  \A p, q \in Callers : SameCalls(p, q) => SameOutcome(p, q)

\* C36, amended: the same holds for two calls that also pass the same
\* ignore_user_profile; a call that ignores the profile returns the
\* bucketed variation while a call that reads it returns the stored one.
C36_ConcurrentSameCallsAgree ==
  \A p, q \in Callers :
    (SameCalls(p, q) /\ frame[p].ignore_user_profile = frame[q].ignore_user_profile)
      => SameOutcome(p, q)

\* both calls looked up a profile without a usable decision before either
\* saved, both were bucketed and both saved
C36_Witness ==
  \E p, q \in Callers :
    /\ SameCalls(p, q)
    /\ ~frame[p].ignore_user_profile /\ ~frame[q].ignore_user_profile
    /\ HasOutcome(frame[p].trace, "save", "returned")
    /\ HasOutcome(frame[q].trace, "save", "returned")
    /\ frame[p].ret # None

-----------------------------------------------------------------------------
(* properties of the lookups by key and by id *)

\* C37: in a constructed index the maps by key and by id agree: an
\* experiment found by key is what get_experiment_from_id returns for its
\* id; for every variation of every experiment, get_variation_from_key with
\* its key and get_variation_from_id with its id return that variation; and
\* the maps by id hold no experiment and no variation that the maps by key
\* lack.
C37_KeyAndIdAgree ==
  config.parsing_succeeded =>
    /\ \A k \in DOMAIN config.experiment_key_map :
         LET e == get_experiment_from_key(config, k).ret
         IN  /\ e # None /\ e.key = k
             /\ get_experiment_from_id(config, e.id).ret = e
             /\ \A vk \in DOMAIN config.variation_key_map[k] :
                  LET v == config.variation_key_map[k][vk]
                  IN  /\ get_variation_from_key(config, e.key, v.key).ret = v
                      /\ get_variation_from_id(config, e.key, v.id).ret = v
    /\ Range(config.experiment_id_map) \subseteq Range(config.experiment_key_map)
    /\ \A id \in DOMAIN config.experiment_id_map :
         config.experiment_id_map[id].id = id
    /\ DOMAIN config.variation_id_map = DOMAIN config.variation_key_map
    /\ \A k \in DOMAIN config.variation_id_map :
         /\ Range(config.variation_id_map[k]) \subseteq Range(config.variation_key_map[k])
         /\ \A id \in DOMAIN config.variation_id_map[k] :
              config.variation_id_map[k][id].id = id

\* get_variation_from_id has returned the variation of test_experiment
\* that get_variation_from_key returns for its key, in an index that also
\* holds experiments of groups and of layers
C37_Witness ==
  \E p \in Callers :
    /\ ReturnedFrom(p, "get_variation_from_id")
    /\ frame[p].a = "test_experiment" /\ frame[p].b = "111128"
    /\ frame[p].raised = NoneStr
    /\ frame[p].ret # None /\ frame[p].ret.key = "control"
    /\ get_variation_from_key(config, "test_experiment", "control").ret = frame[p].ret
    /\ get_experiment_from_id(config, "32222").ret.key = "group_exp_1"
    /\ get_experiment_from_id(config, "211127").ret # None

\* the experiment of this key has a variation of this key, or of this id
HasVariation(c, name, experiment_key, b) ==
  IF name = "get_variation_from_key"
  THEN b \in DOMAIN c.variation_key_map[experiment_key]
  ELSE b \in DOMAIN c.variation_id_map[experiment_key]

\* the error kinds a getter reported
ReportedKinds(trace) ==
  {trace[i].msg : i \in {j \in DOMAIN trace : trace[j].op = "handle_error"}}

\* C38: get_variation_from_key and get_variation_from_id, called with the
\* key of an indexed experiment (one without variations included) and a
\* variation key or id the experiment does not have, return None and report
\* the unknown-variation kind; they report the unknown-experiment kind only
\* when the experiment key is not in the index.
C38_UnknownVariationKind ==
  \A p \in Callers :
    (/\ pc[p] = "done"
     /\ frame[p].op \in {"get_variation_from_key", "get_variation_from_id"}
     /\ frame[p].raised = NoneStr) =>
      /\ (/\ frame[p].a \in DOMAIN config.experiment_key_map
          /\ ~HasVariation(config, frame[p].op, frame[p].a, frame[p].b)) =>
           /\ frame[p].ret = None
           /\ ReportedKinds(frame[p].trace) = {"InvalidVariationException"}
      /\ "InvalidExperimentException" \in ReportedKinds(frame[p].trace) =>
           frame[p].a \notin DOMAIN config.experiment_key_map

====
